---- MODULE Spec2Model ----
(***************************************************************************)
(* Model of lavacore's core: the voice-credential forwarding of            *)
(* src/src/manager/VoiceForwarder.ts together with the asynchronous player *)
(* calls it awaits, the ExponentialBackoff and HttpClient of               *)
(* src/src/utils/http.ts, and the NodeConnection and ClusterRegistry that  *)
(* use them.  Each component has its own specification over the shared     *)
(* variables; the others stay in their initial state meanwhile.  For the   *)
(* forwarder every observable happening (a handler call, an emitted        *)
(* notification, a call made on the player, the settling of such a call)   *)
(* is appended to `trace`, so that ordering properties are properties of   *)
(* that sequence.                                                          *)
(***************************************************************************)
EXTENDS Integers, Sequences, FiniteSets, TLC

VARIABLES
  voiceStates,  \* VoiceForwarder.voiceStates : Map<guild, VoiceConnection>
  player,       \* guild -> the player's voiceChannelId, or NoPlayer
  pending,      \* player calls awaited by a suspended handler
  trace,        \* everything observable, in the order it happened
  ops,          \* number of API calls made so far
  boOptions,    \* ExponentialBackoff.options
  boAttempt,    \* ExponentialBackoff.attempt
  boHist,       \* what next() returned or threw, since construction or reset
  boResets,     \* number of reset() calls made so far
  boResetFrom,  \* the attempt counter the last reset() found, -1 before any
  http,         \* the HttpClient.request calls made, each with its progress
  ncStatus,     \* NodeConnection: its lifecycle state
  ncTimer,      \* NodeConnection: a reconnect timer is pending
  ncKey,        \* NodeConnection: a session-resumption key is held
  ncFatal,      \* number of fatal node-lost notifications emitted
  ncConnects,   \* number of transitions to Connected so far
  ncFailures,   \* failures since the last Connected (or construction)
  ncRetries,    \* timer-driven connect attempts since the last Connected
  ncClosedFrom, \* the state disconnect() was called in, "none" before
  clNodes,      \* ClusterRegistry: node ids in registration order
  clStatus,     \* ClusterRegistry: node id -> connection status
  clLoad,       \* ClusterRegistry: node id -> load of its stats snapshot
  clResult,     \* the last selectNode made on the present node set
  sent,         \* what the sendPayload sink was handed, in order
  wbPc,         \* withBackoff: where the call stands
  wbCalls,      \* withBackoff: the outcomes of the invocations of fn so far
  wbLastError,  \* withBackoff: lastError
  wbDelay,      \* withBackoff: the delay being slept, -1 when none
  wbSleeps,     \* withBackoff: the sleeps started so far
  wbResult,     \* withBackoff: what the call resolved or rejected with
  ncDispatched, \* NodeConnection: the commands handed to the backend
  ncSendLog,    \* NodeConnection: each send call, its state and its result
  seAssigned,   \* the assignments of sessions to nodes, as <<session, node>>
  seLog,        \* the lifecycle and reassignment notifications, in order
  apHistory,    \* AutoPlay: playedIdentifiers, in insertion order
  apNext,       \* AutoPlay: the next identifier no track has carried yet
  apQueue,      \* the player's queue
  apPc,         \* AutoPlay.execute: where the call stands
  apCall,       \* AutoPlay.execute: the handler chosen, the previous
                \* track's author and the queue the call found
  apResult,     \* AutoPlay.execute: how the last call settled
  fbFilters,    \* FilterBuilder: filters
  fbLast,       \* FilterBuilder: the last setter call, its argument and
                \* whether it threw
  fbCalls       \* FilterBuilder: the calls made so far

voiceVars == <<voiceStates, player, pending, trace, ops>>
backoffVars == <<boOptions, boAttempt, boHist, boResets, boResetFrom>>
httpVars == <<http>>
nodeVars ==
  <<ncStatus, ncTimer, ncKey, ncFatal, ncConnects, ncFailures, ncRetries,
    ncClosedFrom>>
clusterVars == <<clNodes, clStatus, clLoad, clResult>>
sinkVars == <<sent>>
withBackoffVars == <<wbPc, wbCalls, wbLastError, wbDelay, wbSleeps, wbResult>>
commandVars == <<ncDispatched, ncSendLog>>
sessionVars == <<seAssigned, seLog>>
autoPlayVars == <<apHistory, apNext, apQueue, apPc, apCall, apResult>>
filterVars == <<fbFilters, fbLast, fbCalls>>
restVars == <<withBackoffVars, sessionVars, autoPlayVars, filterVars>>
vars ==
  <<voiceVars, backoffVars, httpVars, nodeVars, commandVars, clusterVars,
    sinkVars, restVars>>
notSinkVars ==
  <<backoffVars, httpVars, nodeVars, commandVars, clusterVars, restVars>>
notVoiceVars == <<notSinkVars, sinkVars>>
notBackoffVars ==
  <<voiceVars, httpVars, nodeVars, commandVars, clusterVars, sinkVars,
    restVars>>
notHttpVars ==
  <<voiceVars, backoffVars, nodeVars, commandVars, clusterVars, sinkVars,
    restVars>>
notCommandVars ==
  <<voiceVars, httpVars, clusterVars, sinkVars, restVars, boOptions, boHist,
    boResets, boResetFrom>>
notNodeVars == <<notCommandVars, commandVars>>
notClusterVars ==
  <<voiceVars, backoffVars, httpVars, nodeVars, commandVars, sinkVars,
    restVars>>
notWithBackoffVars ==
  <<voiceVars, httpVars, nodeVars, commandVars, clusterVars, sinkVars,
    sessionVars, autoPlayVars, filterVars, boHist, boResets, boResetFrom>>
notSessionVars ==
  <<voiceVars, backoffVars, httpVars, nodeVars, commandVars, sinkVars,
    withBackoffVars, autoPlayVars, filterVars, clNodes, clLoad, clResult>>
notAutoPlayVars ==
  <<voiceVars, backoffVars, httpVars, nodeVars, commandVars, clusterVars,
    sinkVars, withBackoffVars, sessionVars, filterVars>>
notFilterVars ==
  <<voiceVars, backoffVars, httpVars, nodeVars, commandVars, clusterVars,
    sinkVars, withBackoffVars, sessionVars, autoPlayVars>>

\* ------------------------------------------------------------------ bounds
MaxOps == 3
MaxCalls == 5        \* calls of next() between two resets
MaxResets == 1       \* calls of reset()
RandomSteps == 4     \* Math.random() yields k / RandomSteps, 0 <= k < RandomSteps
MaxRequests == 2     \* calls of HttpClient.request
MaxConnects == 2     \* transitions of a NodeConnection to Connected
MaxInvocations == 4  \* invocations of fn by one withBackoff call
MaxSends == 2        \* send calls made on a NodeConnection
MaxNotes == 5        \* notifications in the session log
MaxIds == 52         \* identifiers the previous tracks carry
MaxQueue == 2        \* tracks in the queue when execute is called
MaxSetterCalls == 2  \* calls made on a FilterBuilder
MaxBands == 2        \* bands in an equalizer list

\* ------------------------------------------------------------ value sets
Guilds == {"G1", "G2"}
Null == "null"
Undefined == "undefined"
NoPlayer == "no-player"
ClientId == "bot"
IncompleteError == "Incomplete voice state"
NodeError == "Node not connected"

\* JavaScript truthiness of the string-or-null values the handlers test
Truthy(v) == v \notin {"", Null, Undefined}

\* a gateway packet; the fields a packet kind does not carry are undefined
ServerPacket(g, token, endpoint) ==
  [t |-> "VOICE_SERVER_UPDATE",
   d |-> [guild_id |-> g, token |-> token, endpoint |-> endpoint,
          user_id |-> Undefined, session_id |-> Undefined,
          channel_id |-> Undefined]]

StatePacket(g, user, session, channel) ==
  [t |-> "VOICE_STATE_UPDATE",
   d |-> [guild_id |-> g, token |-> Undefined, endpoint |-> Undefined,
          user_id |-> user, session_id |-> session, channel_id |-> channel]]

OtherPacket(g) ==
  [t |-> "GUILD_CREATE",
   d |-> [guild_id |-> g, token |-> Undefined, endpoint |-> Undefined,
          user_id |-> Undefined, session_id |-> Undefined,
          channel_id |-> Undefined]]

\* the packets the gateway delivers: G1 sees every shape of packet, G2 the
\* plain ones, with values of its own
Packets ==
  { ServerPacket("G1", "T1", "E1"), ServerPacket("G1", "T2", "E2"),
    ServerPacket("G1", "T1", Null), ServerPacket("G1", "", "E1"),
    StatePacket("G1", ClientId, "S1", "C1"),
    StatePacket("G1", ClientId, "S2", "C2"),
    StatePacket("G1", ClientId, "S1", Null),
    StatePacket("G1", ClientId, "", "C1"),
    StatePacket("G1", "other", "S3", Null),
    ServerPacket("G2", "T3", "E3"),
    StatePacket("G2", ClientId, "S4", "C3"),
    StatePacket("G2", ClientId, "S4", Null),
    OtherPacket("G1") }

\* the players the manager holds when the forwarder starts
InitialPlayers ==
  { f \in [Guilds -> {NoPlayer, "C1", "C3"}] :
      f["G1"] # "C3" /\ f["G2"] # "C1" }

\* ------------------------------------------------------------ trace entries
\* k: kind; g: guild; ev: index in trace of the handler call that caused it
Ent(k, g, ev, a, b, c, d) ==
  [k |-> k, g |-> g, ev |-> ev, a |-> a, b |-> b, c |-> c, d |-> d]

Debug(g, ev, msg) == Ent("debug", g, ev, msg, "", "", "")

\* ------------------------------------------------------- VoiceForwarder.ts
\* Map.set and Map.delete on voiceStates, a function whose domain is the
\* set of guilds that have an entry
MapSet(states, g, voiceState) ==
  [x \in DOMAIN states \cup {g} |-> IF x = g THEN voiceState ELSE states[x]]

\* mutant: the deletion empties the map, as clearAllVoiceStates does
MapDeleteAll(states, g) == [x \in {} |-> states[x]]

MapDelete(states, g) == [x \in DOMAIN states \ {g} |-> states[x]]

NewEntry(g, channel) ==
  [guildId |-> g, channelId |-> channel, sessionId |-> Undefined,
   token |-> Undefined, endpoint |-> Undefined]

IsComplete(voiceState) ==
  /\ Truthy(voiceState.sessionId)
  /\ Truthy(voiceState.token)
  /\ Truthy(voiceState.endpoint)

\* the payload handed to player.updateVoiceState
LavalinkVoiceState(g, ev, voiceState) ==
  Ent("update", g, ev, voiceState.token, voiceState.endpoint,
      voiceState.sessionId, "")

\* mutant: the completeness check of forwardVoiceState is missing
forwardVoiceStateUnchecked(g, ev, voiceState) ==
  << LavalinkVoiceState(g, ev, voiceState) >>

\* forwardVoiceState up to its await
forwardVoiceState(g, ev, voiceState) ==
  IF ~IsComplete(voiceState)
    THEN << Ent("throw", g, ev, IncompleteError, "", "", "") >>
    ELSE << LavalinkVoiceState(g, ev, voiceState) >>

\* mutant: a rejection of player.updateVoiceState is caught and ignored
AfterUpdateSwallowed(g, ev, outcome) ==
  << Debug(g, ev, "Forwarded voice state") >>

\* forwardVoiceState after its await: the promise's outcome decides
AfterUpdate(g, ev, outcome) ==
  IF outcome = "ok"
    THEN << Debug(g, ev, "Forwarded voice state") >>
    ELSE << Ent("rejected", g, ev, outcome, "", "", "") >>

\* mutant: the server handler replaces the token but keeps an endpoint it
\* already holds, mixing the fragments of two server events
ServerUpdateKeepsEndpoint(voiceState, token, endpoint) ==
  [voiceState EXCEPT !.token = token,
                     !.endpoint = IF Truthy(voiceState.endpoint)
                                    THEN voiceState.endpoint ELSE endpoint]

ServerUpdateFields(voiceState, token, endpoint) ==
  [voiceState EXCEPT !.token = token, !.endpoint = endpoint]

\* mutant: the server handler forwards whether or not there is a player
ServerShouldForwardNoPlayer(pch, voiceState) == Truthy(voiceState.sessionId)

ServerShouldForward(pch, voiceState) ==
  pch # NoPlayer /\ Truthy(voiceState.sessionId)

\* handleVoiceServerUpdate up to its first await
HandleServer(states, pch, g, ev, d) ==
  LET vs0 == IF g \notin DOMAIN states THEN NewEntry(g, Null) ELSE states[g]
      vs1 == ServerUpdateFields(vs0, d.token, d.endpoint)
  IN  [states |-> MapSet(states, g, vs1),
       out |-> << Debug(g, ev, "Voice server update") >>
               \o (IF ServerShouldForward(pch, vs1)
                     THEN forwardVoiceState(g, ev, vs1) ELSE << >>)]

\* mutant: the state handler keeps a session id it already holds
StateUpdateKeepsSession(voiceState, session, channel) ==
  [voiceState EXCEPT !.sessionId = IF Truthy(voiceState.sessionId)
                                     THEN voiceState.sessionId ELSE session,
                     !.channelId = channel]

StateUpdateFields(voiceState, session, channel) ==
  [voiceState EXCEPT !.sessionId = session, !.channelId = channel]

\* mutant: the state handler gates on its own fragment, as the server
\* handler does, instead of on the other one
StateShouldForwardOnSession(pch, voiceState) ==
  pch # NoPlayer /\ Truthy(voiceState.sessionId)

StateShouldForward(pch, voiceState) ==
  pch # NoPlayer /\ Truthy(voiceState.token) /\ Truthy(voiceState.endpoint)

PlayerMoved(pch, channel) == pch # NoPlayer /\ pch # channel

\* mutant: the move is announced after the credential was forwarded
StateEffectsForwardFirst(pch, g, ev, voiceState, channel) ==
  (IF StateShouldForward(pch, voiceState)
     THEN forwardVoiceState(g, ev, voiceState) ELSE << >>)
  \o (IF PlayerMoved(pch, channel)
        THEN << Ent("playerMove", g, ev, pch, channel, "", "") >> ELSE << >>)

\* what a bot state event with a channel emits and calls, in order
StateEffects(pch, g, ev, voiceState, channel) ==
  (IF PlayerMoved(pch, channel)
     THEN << Ent("playerMove", g, ev, pch, channel, "", "") >> ELSE << >>)
  \o (IF StateShouldForward(pch, voiceState)
        THEN forwardVoiceState(g, ev, voiceState) ELSE << >>)

\* mutant: a departure tears the player down but keeps the credentials
DepartureKeepsState(states, pch, g, ev) ==
  [states |-> states,
   out |-> IF pch # NoPlayer
             THEN << Ent("disconnect", g, ev, "", "", "", "") >> ELSE << >>]

\* what a bot state event without a channel does
Departure(states, pch, g, ev) ==
  [states |-> MapDelete(states, g),
   out |-> IF pch # NoPlayer
             THEN << Ent("disconnect", g, ev, "", "", "", "") >> ELSE << >>]

\* mutant: the state handler processes the events of every user
HandleStateAnyUser(states, pch, g, ev, d) ==
  LET vs0 == IF g \notin DOMAIN states
               THEN NewEntry(g, d.channel_id) ELSE states[g]
      vs1 == StateUpdateFields(vs0, d.session_id, d.channel_id)
      dbg == << Debug(g, ev, "Voice state update") >>
  IN  IF ~Truthy(d.channel_id)
        THEN [states |-> Departure(states, pch, g, ev).states,
              out |-> dbg \o Departure(states, pch, g, ev).out]
        ELSE [states |-> MapSet(states, g, vs1),
              out |-> dbg \o StateEffects(pch, g, ev, vs1, d.channel_id)]

\* handleVoiceStateUpdate up to its first await
HandleState(states, pch, g, ev, d) ==
  IF d.user_id # ClientId
    THEN [states |-> states, out |-> << >>]
    ELSE
      LET vs0 == IF g \notin DOMAIN states
                   THEN NewEntry(g, d.channel_id) ELSE states[g]
          vs1 == StateUpdateFields(vs0, d.session_id, d.channel_id)
          dbg == << Debug(g, ev, "Voice state update") >>
      IN  IF ~Truthy(d.channel_id)
            THEN [states |-> Departure(states, pch, g, ev).states,
                  out |-> dbg \o Departure(states, pch, g, ev).out]
            ELSE [states |-> MapSet(states, g, vs1),
                  out |-> dbg \o StateEffects(pch, g, ev, vs1, d.channel_id)]

\* the player calls a handler's output leaves in flight
CallsOf(out) ==
  { [ev |-> out[i].ev, g |-> out[i].g, kind |-> out[i].k] :
      i \in { j \in DOMAIN out : out[j].k \in {"update", "disconnect"} } }

\* ------------------------------------------- http.ts: ExponentialBackoff
DefaultBaseDelay == 1000
DefaultMaxDelay == 60000
DefaultMaxAttempts == 0
DefaultJitter == 20

\* the options a backoff is constructed with; jitter is in hundredths
BackoffOptions(baseDelay, maxDelay, maxAttempts, jitter) ==
  [baseDelay |-> baseDelay, maxDelay |-> maxDelay,
   maxAttempts |-> maxAttempts, jitter |-> jitter]

DefaultOptions ==
  BackoffOptions(DefaultBaseDelay, DefaultMaxDelay, DefaultMaxAttempts,
                 DefaultJitter)

OptionSets ==
  { BackoffOptions(b, m, n, j) :
      b \in {1, 3}, m \in {2, 10}, n \in {0, 1, 3}, j \in {0, 20, 100, 150} }
  \cup {DefaultOptions}

Min(a, b) == IF a <= b THEN a ELSE b
Max(a, b) == IF a >= b THEN a ELSE b

RECURSIVE Pow2(_)
Pow2(n) == IF n = 0 THEN 1 ELSE 2 * Pow2(n - 1)

\* mutant: the exhaustion test of next() is off by one
NextThrowsOffByOne(options, attempt) ==
  options.maxAttempts > 0 /\ attempt > options.maxAttempts

\* the test that makes next() throw
NextThrows(options, attempt) ==
  options.maxAttempts > 0 /\ attempt >= options.maxAttempts

\* mutant: the exponent is the attempt already counted
ExponentialDelayNextAttempt(options, attempt) ==
  options.baseDelay * Pow2(attempt + 1)

ExponentialDelay(options, attempt) == options.baseDelay * Pow2(attempt)

\* mutant: the delay is not capped
CappedDelayUncapped(options, attempt) == ExponentialDelay(options, attempt)

CappedDelay(options, attempt) ==
  Min(ExponentialDelay(options, attempt), options.maxDelay)

\* Math.floor(Math.max(0, capped + random * range * 2 - range)) with
\* range = capped * jitter and random = k / RandomSteps, as one fraction
FinalDelay(options, attempt, k) ==
  LET capped == CappedDelay(options, attempt)
      den == 100 * RandomSteps
      num == capped * den + capped * options.jitter * (2 * k - RandomSteps)
  IN  Max(0, num) \div den

\* mutant: exhaustion is reported one attempt too late
hasReachedMaxAttemptsLate(options, attempt) ==
  options.maxAttempts > 0 /\ attempt > options.maxAttempts

hasReachedMaxAttempts(options, attempt) ==
  options.maxAttempts > 0 /\ attempt >= options.maxAttempts

getRemainingAttempts(options, attempt) ==
  IF options.maxAttempts = 0 THEN -1
  ELSE Max(0, options.maxAttempts - attempt)

\* mutant: reset() leaves an exhausted policy exhausted
ResetKeepsExhausted(options, attempt) ==
  IF hasReachedMaxAttempts(options, attempt) THEN attempt ELSE 0

\* the attempt counter after reset()
ResetAttempt(options, attempt) == 0

\* the voice variables while another component is examined
VoiceIdle ==
  /\ voiceStates = << >>
  /\ player = [g \in Guilds |-> NoPlayer]
  /\ pending = {}
  /\ trace = << >>
  /\ ops = 0
  /\ sent = << >>

\* the backoff variables while another component is examined
BackoffIdle ==
  /\ boOptions = DefaultOptions
  /\ boAttempt = 0
  /\ boHist = << >>
  /\ boResets = 0
  /\ boResetFrom = -1

\* the HTTP variable while another component is examined
HttpIdle == http = << >>

\* the NodeConnection variables while another component is examined
NodeIdle ==
  /\ ncStatus = "Disconnected"
  /\ ncTimer = FALSE
  /\ ncKey = FALSE
  /\ ncFatal = 0
  /\ ncConnects = 0
  /\ ncFailures = 0
  /\ ncRetries = 0
  /\ ncClosedFrom = "none"
  /\ ncDispatched = << >>
  /\ ncSendLog = << >>

\* the ClusterRegistry variables while another component is examined
ClusterIdle ==
  /\ clNodes = << >>
  /\ clStatus = << >>
  /\ clLoad = << >>
  /\ clResult = [excluded |-> {}, node |-> "no-selection"]

NoError == [isError |-> FALSE, text |-> "undefined"]
NoResult == [isError |-> FALSE, text |-> "pending"]

\* the withBackoff variables while another component is examined
WithBackoffIdle ==
  /\ wbPc = "idle"
  /\ wbCalls = << >>
  /\ wbLastError = NoError
  /\ wbDelay = -1
  /\ wbSleeps = 0
  /\ wbResult = NoResult

\* the session variables while another component is examined
SessionsIdle ==
  /\ seAssigned = {}
  /\ seLog = << >>

\* execute has not been called: no handler, no author, an empty queue
NoCall == [handler |-> "none", author |-> "", before |-> << >>]

\* the AutoPlay variables while another component is examined
AutoPlayIdle ==
  /\ apHistory = << >>
  /\ apNext = 1
  /\ apQueue = << >>
  /\ apPc = "idle"
  /\ apCall = NoCall
  /\ apResult = "none"

\* an option that is not set, and one that is
None == << >>
Some(v) == << v >>

\* private filters: FilterOptions = {}
NoFilters ==
  [volume |-> None, equalizer |-> None, timescale |-> None,
   tremolo |-> None, vibrato |-> None]

\* no setter has been called
NoSetterCall == [setter |-> "none", patch |-> NoFilters, threw |-> FALSE]

\* the FilterBuilder variables while another component is examined
FilterIdle ==
  /\ fbFilters = NoFilters
  /\ fbLast = NoSetterCall
  /\ fbCalls = 0

\* the remaining components while another one is examined
RestIdle == WithBackoffIdle /\ SessionsIdle /\ AutoPlayIdle /\ FilterIdle

\* new ExponentialBackoff(options)
BackoffInit ==
  /\ boOptions \in OptionSets
  /\ boAttempt = 0
  /\ boHist = << >>
  /\ boResets = 0
  /\ boResetFrom = -1
  /\ VoiceIdle
  /\ HttpIdle
  /\ NodeIdle
  /\ ClusterIdle
  /\ RestIdle

\* next(), with Math.random() = k / RandomSteps
BackoffNext(k) ==
  /\ Len(boHist) < MaxCalls
  /\ IF NextThrows(boOptions, boAttempt)
       THEN /\ boHist' = Append(boHist, [kind |-> "throw", value |-> 0])
            /\ UNCHANGED boAttempt
       ELSE /\ boHist' = Append(boHist,
                           [kind |-> "delay",
                            value |-> FinalDelay(boOptions, boAttempt, k)])
            /\ boAttempt' = boAttempt + 1
  /\ UNCHANGED <<boOptions, boResets, boResetFrom, notBackoffVars>>

\* reset()
BackoffReset ==
  /\ boResets < MaxResets
  /\ boAttempt' = ResetAttempt(boOptions, boAttempt)
  /\ boHist' = << >>
  /\ boResets' = boResets + 1
  /\ boResetFrom' = boAttempt
  /\ UNCHANGED <<boOptions, notBackoffVars>>

BackoffStep ==
  \/ \E k \in 0 .. RandomSteps - 1 : BackoffNext(k)
  \/ BackoffReset

SpecBackoff == BackoffInit /\ [][BackoffStep]_vars

\* ------------------------------------------------- http.ts: withBackoff
\* A value fn resolves with or throws: an Error object or another value,
\* with its text
ErrorOf(text) == [isError |-> TRUE, text |-> text]
ValueOf(text) == [isError |-> FALSE, text |-> text]
MaxAttemptsError == ErrorOf("Maximum reconnection attempts reached")
UnknownError == ErrorOf("Backoff failed with unknown error")

\* what one invocation of fn may do
FnOutcomes ==
  { [ok |-> TRUE, value |-> ValueOf("v1")],
    [ok |-> FALSE, value |-> ErrorOf("E1")],
    [ok |-> FALSE, value |-> ErrorOf("E2")],
    [ok |-> FALSE, value |-> ValueOf("s1")] }

\* mutant: the thrown value is kept as it is
AsErrorIdentity(thrown) == thrown

\* error instanceof Error ? error : new Error(String(error))
AsError(thrown) == IF thrown.isError THEN thrown ELSE ErrorOf(thrown.text)

\* the head of the while loop: invoke fn again, or throw lastError ?? ...
LoopHead(options, attempt, lastError) ==
  IF ~hasReachedMaxAttempts(options, attempt)
    THEN [pc |-> "calling", result |-> NoResult]
    ELSE [pc |-> "rejected",
          result |-> IF lastError = NoError THEN UnknownError ELSE lastError]

WithBackoffInit ==
  /\ WithBackoffIdle
  /\ boOptions \in OptionSets
  /\ boAttempt = 0
  /\ boHist = << >>
  /\ boResets = 0
  /\ boResetFrom = -1
  /\ VoiceIdle
  /\ HttpIdle
  /\ NodeIdle
  /\ ClusterIdle
  /\ SessionsIdle
  /\ AutoPlayIdle
  /\ FilterIdle

\* withBackoff(fn, options) up to its first await
WithBackoffCall ==
  /\ wbPc = "idle"
  /\ LET r == LoopHead(boOptions, boAttempt, wbLastError) IN
       wbPc' = r.pc /\ wbResult' = r.result
  /\ UNCHANGED <<wbCalls, wbLastError, wbDelay, wbSleeps, boOptions,
                 boAttempt, notWithBackoffVars>>

\* `return await fn()` with fn resolving
FnResolves(outcome) ==
  /\ wbPc = "calling"
  /\ outcome.ok
  /\ wbCalls' = Append(wbCalls, outcome)
  /\ wbPc' = "resolved"
  /\ wbResult' = outcome.value
  /\ UNCHANGED <<wbLastError, wbDelay, wbSleeps, boOptions, boAttempt,
                 notWithBackoffVars>>

\* fn rejects: the catch block up to its await of sleep(delay)
FnThrows(outcome, k) ==
  /\ wbPc = "calling"
  /\ ~outcome.ok
  /\ wbCalls' = Append(wbCalls, outcome)
  /\ wbLastError' = AsError(outcome.value)
  /\ IF hasReachedMaxAttempts(boOptions, boAttempt)
       THEN /\ wbPc' = "rejected"
            /\ wbResult' = wbLastError'
            /\ UNCHANGED <<wbDelay, wbSleeps, boAttempt>>
       ELSE IF NextThrows(boOptions, boAttempt)
       THEN /\ wbPc' = "rejected"
            /\ wbResult' = MaxAttemptsError
            /\ UNCHANGED <<wbDelay, wbSleeps, boAttempt>>
       ELSE /\ wbPc' = "sleeping"
            /\ wbDelay' = FinalDelay(boOptions, boAttempt, k)
            /\ wbSleeps' = wbSleeps + 1
            /\ boAttempt' = boAttempt + 1
            /\ UNCHANGED wbResult
  /\ UNCHANGED <<boOptions, notWithBackoffVars>>

\* the sleep ends and the loop is entered again
SleepEnds ==
  /\ wbPc = "sleeping"
  /\ LET r == LoopHead(boOptions, boAttempt, wbLastError) IN
       /\ r.pc = "calling" => Len(wbCalls) < MaxInvocations
       /\ wbPc' = r.pc
       /\ wbResult' = r.result
  /\ wbDelay' = -1
  /\ UNCHANGED <<wbCalls, wbLastError, wbSleeps, boOptions, boAttempt,
                 notWithBackoffVars>>

WithBackoffStep ==
  \/ WithBackoffCall
  \/ \E outcome \in FnOutcomes : FnResolves(outcome)
  \/ \E outcome \in FnOutcomes, k \in 0 .. RandomSteps - 1 :
       FnThrows(outcome, k)
  \/ SleepEnds

SpecWithBackoff == WithBackoffInit /\ [][WithBackoffStep]_vars

\* --------------------------------------------------- http.ts: HttpClient
Methods == {"GET", "POST", "PATCH", "DELETE"}

\* what the backend does with a request: answer 200 with JSON, answer 204,
\* answer 500, answer 200 with a body that is not JSON, refuse the
\* connection, or accept it and never answer
Backends == {"json200", "empty204", "error500", "badjson", "refused", "silent"}

Settled == {"resolved", "rejected"}

\* the promise of fetch() settles, and request runs to its next await
AfterFetch(r) ==
  IF r.backend = "refused"
    THEN [r EXCEPT !.pc = "rejected", !.result = "Request failed: fetch failed"]
  ELSE IF r.backend = "error500"
    THEN [r EXCEPT !.pc = "text"]
  ELSE IF r.backend = "empty204"
    THEN [r EXCEPT !.pc = "resolved", !.result = "{}"]
  ELSE [r EXCEPT !.pc = "json"]

\* response.text() settles: the non-2xx answer becomes an error
AfterText(r) ==
  [r EXCEPT !.pc = "rejected", !.result = "Request failed: HTTP 500"]

\* response.json() settles
AfterJson(r) ==
  IF r.backend = "badjson"
    THEN [r EXCEPT !.pc = "rejected", !.result = "Request failed: invalid json"]
    ELSE [r EXCEPT !.pc = "resolved", !.result = "data"]

HttpInit ==
  /\ http = << >>
  /\ VoiceIdle
  /\ BackoffIdle
  /\ NodeIdle
  /\ ClusterIdle
  /\ RestIdle

\* request(options) up to its await of fetch(); no timer is started
HttpRequest(method, backend) ==
  /\ Len(http) < MaxRequests
  /\ http' = Append(http, [method |-> method, backend |-> backend,
                           pc |-> "fetch", result |-> ""])
  /\ UNCHANGED notHttpVars

\* the backend's answer (or refusal) arrives for request i
FetchSettles(i) ==
  /\ i \in DOMAIN http
  /\ http[i].pc = "fetch" /\ http[i].backend # "silent"
  /\ http' = [http EXCEPT ![i] = AfterFetch(http[i])]
  /\ UNCHANGED notHttpVars

\* the body of the answer to request i has been read
BodySettles(i) ==
  /\ i \in DOMAIN http
  /\ http[i].pc \in {"text", "json"}
  /\ http' = [http EXCEPT ![i] = IF http[i].pc = "text"
                                   THEN AfterText(http[i])
                                   ELSE AfterJson(http[i])]
  /\ UNCHANGED notHttpVars

HttpStep ==
  \/ \E method \in Methods, backend \in Backends : HttpRequest(method, backend)
  \/ \E i \in 1 .. MaxRequests : FetchSettles(i)
  \/ \E i \in 1 .. MaxRequests : BodySettles(i)

\* an answer that has arrived is eventually handled
SpecHttp ==
  /\ HttpInit /\ [][HttpStep]_vars
  /\ \A i \in 1 .. MaxRequests :
       WF_vars(FetchSettles(i)) /\ WF_vars(BodySettles(i))

\* ------------------------------------------------------- NodeConnection
\* One backend connection and the ExponentialBackoff it owns (boOptions,
\* boAttempt).  Its lifecycle is
\*   Disconnected -> Connecting -> HandshakeWait -> Connected
\*                -> {Reconnecting, Closed}.
NodeStatuses ==
  {"Disconnected", "Connecting", "HandshakeWait", "Connected",
   "Reconnecting", "Closed"}

\* the reconnection path: BackoffPolicy.next() either yields a delay, after
\* which a reconnect is scheduled, or reports exhaustion, and the connection
\* is Closed with one fatal node-lost notification
ReconnectionPath(options, attempt) ==
  IF NextThrows(options, attempt)
    THEN [status |-> "Closed", attempt |-> attempt, timer |-> FALSE,
          fatal |-> 1]
    ELSE [status |-> "Reconnecting", attempt |-> attempt + 1,
          timer |-> TRUE, fatal |-> 0]

\* the attempt counter after a successful transition to Connected
ConnectedAttempt(options, attempt) == ResetAttempt(options, attempt)

\* mutant: disconnect leaves the reconnect timer armed
DisconnectKeepsTimer(timer, key) ==
  [status |-> "Closed", timer |-> timer, key |-> FALSE]

\* disconnect(reason): Closed, resumption key released, timer cancelled
DisconnectEffect(timer, key) ==
  [status |-> "Closed", timer |-> FALSE, key |-> FALSE]

\* new NodeConnection(options)
NodeInit ==
  /\ NodeIdle
  /\ boOptions \in OptionSets
  /\ boAttempt = 0
  /\ boHist = << >>
  /\ boResets = 0
  /\ boResetFrom = -1
  /\ VoiceIdle
  /\ HttpIdle
  /\ ClusterIdle
  /\ RestIdle

\* connect(): a no-op unless the connection is Disconnected
NodeConnect ==
  /\ ncStatus' = IF ncStatus = "Disconnected" THEN "Connecting" ELSE ncStatus
  /\ UNCHANGED <<ncTimer, ncKey, ncFatal, ncConnects, ncFailures, ncRetries,
                 ncClosedFrom, boAttempt, notNodeVars>>

\* the transport is established and the identity headers are sent
TransportEstablished ==
  /\ ncStatus = "Connecting"
  /\ ncStatus' = "HandshakeWait"
  /\ UNCHANGED <<ncTimer, ncKey, ncFatal, ncConnects, ncFailures, ncRetries,
                 ncClosedFrom, boAttempt, notNodeVars>>

\* the server acknowledges the handshake
HandshakeAcknowledged ==
  /\ ncStatus = "HandshakeWait"
  /\ ncConnects < MaxConnects
  /\ ncStatus' = "Connected"
  /\ boAttempt' = ConnectedAttempt(boOptions, boAttempt)
  /\ ncKey' = TRUE
  /\ ncConnects' = ncConnects + 1
  /\ ncFailures' = 0
  /\ ncRetries' = 0
  /\ UNCHANGED <<ncTimer, ncFatal, ncClosedFrom, notNodeVars>>

\* the transport cannot be established, the handshake fails, or an
\* established connection closes unexpectedly
ConnectionFails ==
  /\ ncStatus \in {"Connecting", "HandshakeWait", "Connected"}
  /\ boAttempt < MaxCalls
  /\ LET r == ReconnectionPath(boOptions, boAttempt) IN
       /\ ncStatus' = r.status
       /\ boAttempt' = r.attempt
       /\ ncTimer' = r.timer
       /\ ncFatal' = ncFatal + r.fatal
  /\ ncFailures' = ncFailures + 1
  /\ UNCHANGED <<ncKey, ncConnects, ncRetries, ncClosedFrom, notNodeVars>>

\* the reconnect timer fires and a connect attempt is made
ReconnectTimerFires ==
  /\ ncTimer
  /\ ncTimer' = FALSE
  /\ ncStatus' = "Connecting"
  /\ ncRetries' = ncRetries + 1
  /\ UNCHANGED <<ncKey, ncFatal, ncConnects, ncFailures, ncClosedFrom,
                 boAttempt, notNodeVars>>

\* disconnect(reason)
NodeDisconnect ==
  /\ ncStatus # "Closed"
  /\ LET r == DisconnectEffect(ncTimer, ncKey) IN
       /\ ncStatus' = r.status
       /\ ncTimer' = r.timer
       /\ ncKey' = r.key
  /\ ncClosedFrom' = ncStatus
  /\ UNCHANGED <<ncFatal, ncConnects, ncFailures, ncRetries, boAttempt,
                 notNodeVars>>

NotConnectedError == "NotConnectedError"
Commands == {"play", "stop"}

\* mutant: a command sent to a connection that is not Connected is
\* dispatched all the same
SendEffectAnyStatus(status, dispatched, command) ==
  [result |-> "ok", dispatched |-> Append(dispatched, command)]

\* send(command): dispatched if the connection is Connected, and failed
\* with NotConnectedError, without being kept for later, if it is not
SendEffect(status, dispatched, command) ==
  IF status = "Connected"
    THEN [result |-> "ok", dispatched |-> Append(dispatched, command)]
    ELSE [result |-> NotConnectedError, dispatched |-> dispatched]

\* send(command)
NodeSend(command) ==
  /\ Len(ncSendLog) < MaxSends
  /\ LET r == SendEffect(ncStatus, ncDispatched, command) IN
       /\ ncDispatched' = r.dispatched
       /\ ncSendLog' = Append(ncSendLog,
                         [command |-> command, status |-> ncStatus,
                          result |-> r.result])
  /\ UNCHANGED <<nodeVars, boAttempt, notCommandVars>>

NodeStep ==
  \/ NodeConnect
  \/ TransportEstablished
  \/ HandshakeAcknowledged
  \/ ConnectionFails
  \/ ReconnectTimerFires
  \/ NodeDisconnect
  \/ \E command \in Commands : NodeSend(command)

SpecNode == NodeInit /\ [][NodeStep]_vars

\* ------------------------------------------------------ ClusterRegistry
NodeIds == {"N1", "N2", "N3"}
Loads == {10, 50, 90}
ClusterStatuses == {"Disconnected", "Connected", "Reconnecting"}
NoAvailableNodeError == "NoAvailableNodeError"
NoSelection == [excluded |-> {}, node |-> "no-selection"]
InfinitePenalty == 1000000

Registered(nodes) == {nodes[i] : i \in DOMAIN nodes}

\* the penalty score, computed on demand from the stats snapshot and the
\* connection status; a node that is not Connected is never selectable
PenaltyScore(status, load) ==
  IF status = "Connected" THEN load ELSE InfinitePenalty

\* mutant: every registered node that is not excluded is a candidate
CandidatesAnyStatus(nodes, status, excluded) ==
  {i \in DOMAIN nodes : nodes[i] \notin excluded}

\* the positions of the nodes selectNode may return
Candidates(nodes, status, excluded) ==
  {i \in DOMAIN nodes :
     status[nodes[i]] = "Connected" /\ nodes[i] \notin excluded}

\* mutant: the excluded ids are not taken into account
selectNodeIgnoringExcluded(nodes, status, load, excluded) ==
  LET cand == Candidates(nodes, status, {})
      score(i) == PenaltyScore(status[nodes[i]], load[nodes[i]])
  IN IF cand = {} THEN NoAvailableNodeError
     ELSE nodes[CHOOSE i \in cand :
                  \A j \in cand :
                    score(i) < score(j) \/ (score(i) = score(j) /\ i <= j)]

\* mutant: among equals the node registered last is returned
selectNodeLastAmongEquals(nodes, status, load, excluded) ==
  LET cand == Candidates(nodes, status, excluded)
      score(i) == PenaltyScore(status[nodes[i]], load[nodes[i]])
  IN IF cand = {} THEN NoAvailableNodeError
     ELSE nodes[CHOOSE i \in cand :
                  \A j \in cand :
                    score(i) < score(j) \/ (score(i) = score(j) /\ i >= j)]

\* selectNode(excluding): the connected, non-excluded node of lowest
\* penalty, the first registered among equals
selectNode(nodes, status, load, excluded) ==
  LET cand == Candidates(nodes, status, excluded)
      score(i) == PenaltyScore(status[nodes[i]], load[nodes[i]])
  IN IF cand = {} THEN NoAvailableNodeError
     ELSE nodes[CHOOSE i \in cand :
                  \A j \in cand :
                    score(i) < score(j) \/ (score(i) = score(j) /\ i <= j)]

\* new ClusterRegistry()
ClusterInit ==
  /\ ClusterIdle
  /\ VoiceIdle
  /\ BackoffIdle
  /\ HttpIdle
  /\ NodeIdle
  /\ RestIdle

\* addNode(descriptor)
addNode(n) ==
  /\ n \notin Registered(clNodes)
  /\ clNodes' = Append(clNodes, n)
  /\ clStatus' = MapSet(clStatus, n, "Disconnected")
  /\ clLoad' = MapSet(clLoad, n, 0)
  /\ clResult' = NoSelection
  /\ UNCHANGED notClusterVars

\* removeNode(id)
removeNode(n) ==
  /\ n \in Registered(clNodes)
  /\ clNodes' = SelectSeq(clNodes, LAMBDA m : m # n)
  /\ clStatus' = MapDelete(clStatus, n)
  /\ clLoad' = MapDelete(clLoad, n)
  /\ clResult' = NoSelection
  /\ UNCHANGED notClusterVars

\* a registered node's connection changes its status
NodeStatusChanges(n, st) ==
  /\ n \in Registered(clNodes)
  /\ clStatus[n] # st
  /\ clStatus' = MapSet(clStatus, n, st)
  /\ clResult' = NoSelection
  /\ UNCHANGED <<clNodes, clLoad, notClusterVars>>

\* stats ingestion: the payload replaces the stored snapshot
StatsUpdated(n, load) ==
  /\ n \in Registered(clNodes)
  /\ clStatus[n] = "Connected"
  /\ clLoad[n] # load
  /\ clLoad' = MapSet(clLoad, n, load)
  /\ clResult' = NoSelection
  /\ UNCHANGED <<clNodes, clStatus, notClusterVars>>

\* a call of selectNode(excluding)
SelectNode(excluded) ==
  /\ clResult' = [excluded |-> excluded,
                  node |-> selectNode(clNodes, clStatus, clLoad, excluded)]
  /\ UNCHANGED <<clNodes, clStatus, clLoad, notClusterVars>>

ClusterStep ==
  \/ \E n \in NodeIds : addNode(n)
  \/ \E n \in NodeIds : removeNode(n)
  \/ \E n \in NodeIds, st \in ClusterStatuses : NodeStatusChanges(n, st)
  \/ \E n \in NodeIds, load \in Loads : StatsUpdated(n, load)
  \/ \E excluded \in SUBSET NodeIds : SelectNode(excluded)

SpecCluster == ClusterInit /\ [][ClusterStep]_vars

\* ------------------------------------------- sessions and their nodes
\* Each guild has at most one session; a session is assigned to the node
\* selectNode returned when it was created or last reassigned.
Sessions == Guilds
SessionNodes == {"N1", "N2"}

Note(kind, node, session, resumed) ==
  [kind |-> kind, node |-> node, session |-> session, resumed |-> resumed]

AssignedTo(assigned, n) == { a[1] : a \in { b \in assigned : b[2] = n } }
NodesOf(assigned, s) == { a[2] : a \in { b \in assigned : b[1] = s } }

\* one reassignment-needed notification for each of the sessions, in the
\* order of their guilds
NeededNotes(n, sessions) ==
  (IF "G1" \in sessions THEN << Note("needed", n, "G1", FALSE) >> ELSE << >>)
  \o (IF "G2" \in sessions THEN << Note("needed", n, "G2", FALSE) >> ELSE << >>)

\* mutant: a non-resumed handshake reports every session of the cluster
HandshakeNotesAllSessions(assigned, n, resumed) ==
  << Note("connected", n, "", resumed) >>
  \o (IF resumed THEN << >>
      ELSE NeededNotes(n, { a[1] : a \in assigned }))

\* what a handshake acknowledgment makes observable: the connection, and
\* when the node did not resume, each session assigned to it as lost
HandshakeNotes(assigned, n, resumed) ==
  << Note("connected", n, "", resumed) >>
  \o (IF resumed THEN << >> ELSE NeededNotes(n, AssignedTo(assigned, n)))

\* mutant: a reassignment adds the new node and keeps the old one
MoveSessionKeepsOld(assigned, s, target) == assigned \cup {<<s, target>>}

\* the assignments after session s was given to node target
MoveSession(assigned, s, target) ==
  { a \in assigned : a[1] # s } \cup {<<s, target>>}

\* new ClusterRegistry(), no session yet
SessionsInit ==
  /\ SessionsIdle
  /\ ClusterIdle
  /\ VoiceIdle
  /\ BackoffIdle
  /\ HttpIdle
  /\ NodeIdle
  /\ WithBackoffIdle
  /\ AutoPlayIdle
  /\ FilterIdle

\* a node's connection closes unexpectedly
NodeLost(n) ==
  /\ n \in Registered(clNodes)
  /\ clStatus[n] = "Connected"
  /\ NodeStatusChanges(n, "Reconnecting")

\* the node acknowledges the handshake; only a reconnect can be resumed
NodeHandshake(n, resumed) ==
  /\ n \in Registered(clNodes)
  /\ clStatus[n] # "Connected"
  /\ resumed => clStatus[n] = "Reconnecting"
  /\ LET notes == HandshakeNotes(seAssigned, n, resumed) IN
       /\ Len(seLog) + Len(notes) <= MaxNotes
       /\ seLog' = seLog \o notes
  /\ clStatus' = MapSet(clStatus, n, "Connected")
  /\ UNCHANGED <<seAssigned, notSessionVars>>

\* session creation: the session goes to the node selectNode returns
CreateSession(s) ==
  /\ NodesOf(seAssigned, s) = {}
  /\ LET target == selectNode(clNodes, clStatus, clLoad, {}) IN
       /\ target # NoAvailableNodeError
       /\ seAssigned' = MoveSession(seAssigned, s, target)
  /\ UNCHANGED <<seLog, clStatus, notSessionVars>>

\* explicit reassignment of a session, with or without excluding its node
ReassignSession(s, excludeOwn) ==
  /\ NodesOf(seAssigned, s) # {}
  /\ Len(seLog) < MaxNotes
  /\ LET from == CHOOSE n \in NodesOf(seAssigned, s) : TRUE
         target == selectNode(clNodes, clStatus, clLoad,
                              IF excludeOwn THEN NodesOf(seAssigned, s) ELSE {})
     IN  /\ target # NoAvailableNodeError
         /\ seAssigned' = MoveSession(seAssigned, s, target)
         /\ seLog' = Append(seLog, Note("reassigned", target, s, FALSE))
  /\ UNCHANGED <<clStatus, notSessionVars>>

SessionsStep ==
  \/ \E n \in SessionNodes : addNode(n)
  \/ \E n \in SessionNodes : NodeLost(n)
  \/ \E n \in SessionNodes, resumed \in BOOLEAN : NodeHandshake(n, resumed)
  \/ \E s \in Sessions : CreateSession(s)
  \/ \E s \in Sessions, excludeOwn \in BOOLEAN : ReassignSession(s, excludeOwn)

SpecSessions == SessionsInit /\ [][SessionsStep]_vars

\* --------------------------------------------------- autoplay.ts: AutoPlay
\* Identifiers and uris are numbers, 0 being the empty (falsy) one.  Every
\* new track carries the next number no track has carried before.
maxHistorySize == 50

\* a found track that was never a previous track
Unplayed == MaxIds + 1

InSeq(x, seq) == \E i \in DOMAIN seq : seq[i] = x

\* a || b on identifiers
OrElse(a, b) == IF a # 0 THEN a ELSE b

\* mutant: the identifier just added is the one deleted
RecordPlayedEvictsNewest(history, identifier) ==
  IF identifier = 0 THEN history
  ELSE IF InSeq(identifier, history) THEN history
  ELSE IF Len(history) + 1 > maxHistorySize THEN history
  ELSE Append(history, identifier)

\* playedIdentifiers.add(identifier), then the oldest entry is deleted when
\* the set has grown beyond maxHistorySize
RecordPlayed(history, identifier) ==
  IF identifier = 0 THEN history
  ELSE LET added == IF InSeq(identifier, history)
                      THEN history ELSE Append(history, identifier)
       IN  IF Len(added) > maxHistorySize /\ added[1] # 0
             THEN Tail(added) ELSE added

Sources == {"youtube", "soundcloud", "spotify", "other"}

\* the previous tracks execute is called with: none, or a track of any
\* source whose identifier is empty, new or the oldest one played, with or
\* without a uri and an author
TrackChoices ==
  {[present |-> FALSE, sourceName |-> "", identifier |-> "none",
    uri |-> "none", author |-> ""]}
  \cup [present : {TRUE}, sourceName : Sources,
        identifier : {"none", "new", "oldest"}, uri : {"none", "new"},
        author : {"", "artist"}]

\* whether the track chosen exists: a new identifier is left, a track has
\* been played
Exists(choice, next, history) ==
  /\ "new" \in {choice.identifier, choice.uri} => next <= MaxIds
  /\ choice.identifier = "oldest" => history # << >>

IdentifierOf(kind, next, history) ==
  IF kind = "new" THEN next ELSE IF kind = "oldest" THEN history[1] ELSE 0

PreviousTrack(choice, next, history) ==
  [choice EXCEPT !.identifier = IdentifierOf(@, next, history),
                 !.uri = IdentifierOf(@, next, history)]

\* the switch of execute
HandlerOf(sourceName) ==
  IF sourceName \in {"soundcloud", "spotify"} THEN sourceName ELSE "youtube"

\* whether the handler gets as far as its search
HandlerSearches(handler, prev) ==
  IF handler = "soundcloud" THEN prev.uri # 0 ELSE prev.identifier # 0

\* the lists of tracks a search may find, by their identifiers
ResultLists == { << >>, << 1 >>, << 1, Unplayed >>, << 0, Unplayed >> }

\* how player.search may settle
SearchOutcomes ==
  {[ok |-> FALSE, loadType |-> "", tracks |-> << >>]}
  \cup [ok : {TRUE}, loadType : {"error", "empty"}, tracks : {<< >>}]
  \cup [ok : {TRUE}, loadType : {"playlist", "search"}, tracks : ResultLists]
  \cup [ok : {TRUE}, loadType : {"track"},
        tracks : {l \in ResultLists : Len(l) = 1}]

\* the tracks a handler takes from a result
TracksOf(handler, result) ==
  IF result.loadType = "playlist"
    THEN IF handler \in {"youtube", "spotify"} THEN result.tracks ELSE << >>
    ELSE IF result.loadType \in {"search", "track"} THEN result.tracks
    ELSE << >>

NotPlayed(history, t) == t # 0 /\ ~InSeq(t, history)

\* the tracks not played yet, or all of them when none is left
Available(tracks, history) ==
  LET fresh == SelectSeq(tracks, LAMBDA t : NotPlayed(history, t))
  IN  IF fresh = << >> THEN tracks ELSE fresh

\* handleSpotify falls back to the artist search, which needs an author
Fallback(handler, author) ==
  IF handler = "spotify" /\ author # "" THEN "fallback" ELSE "false"

\* what a handler does with the result of its search
AfterSearch(handler, author, result) ==
  IF result.loadType \in {"error", "empty"} THEN Fallback(handler, author)
  ELSE IF TracksOf(handler, result) = << >> THEN Fallback(handler, author)
  ELSE "add"

\* mutant: execute has no catch block
ExecuteCatchMissing(failed) == "rejected"

\* the catch block of execute: a failed search or play makes it resolve false
ExecuteCatch(failed) == "false"

\* player.addTrack(track)
addTrack(queue, track) == Append(queue, track)

\* player.play(): it may or may not take the head of the queue
PlayTakes(queue, taken) ==
  IF taken /\ queue # << >> THEN Tail(queue) ELSE queue

AutoPlayInit ==
  /\ AutoPlayIdle
  /\ VoiceIdle
  /\ BackoffIdle
  /\ HttpIdle
  /\ NodeIdle
  /\ ClusterIdle
  /\ WithBackoffIdle
  /\ SessionsIdle
  /\ FilterIdle

\* execute(player, previousTrack) up to its first await
Execute(choice, connected) ==
  /\ apPc = "idle"
  /\ Len(apQueue) < MaxQueue
  /\ Exists(choice, apNext, apHistory)
  /\ LET prev == PreviousTrack(choice, apNext, apHistory) IN
     IF ~prev.present \/ ~connected
       THEN /\ apResult' = "false"
            /\ apCall' = NoCall
            /\ UNCHANGED <<apHistory, apNext, apPc>>
       ELSE LET identifier == OrElse(prev.identifier, prev.uri)
                handler == HandlerOf(prev.sourceName)
            IN  /\ apHistory' = RecordPlayed(apHistory, identifier)
                /\ apNext' = IF identifier = apNext THEN apNext + 1 ELSE apNext
                /\ IF HandlerSearches(handler, prev)
                     THEN /\ apPc' = "search"
                          /\ apResult' = "none"
                          /\ apCall' =
                               [handler |-> handler,
                                author |-> IF handler = "spotify"
                                             THEN prev.author ELSE "",
                                before |-> apQueue]
                     ELSE /\ apPc' = "idle"
                          /\ apResult' = "false"
                          /\ apCall' = NoCall
  /\ UNCHANGED <<apQueue, notAutoPlayVars>>

\* the awaited player.search settles and the handler runs up to its next
\* await; Math.random() picks the k-th available track
SearchSettles(outcome, k) ==
  /\ apPc \in {"search", "fallback"}
  /\ LET handler == apCall.handler
         next == IF outcome.ok
                   THEN AfterSearch(handler, apCall.author, outcome)
                   ELSE ExecuteCatch("search")
         available == Available(TracksOf(handler, outcome), apHistory)
     IN  IF next = "add"
           THEN /\ k \in DOMAIN available
                /\ apQueue' = addTrack(apQueue, available[k])
                /\ apPc' = "play"
                /\ apCall' = [apCall EXCEPT !.handler = "none", !.author = ""]
                /\ UNCHANGED apResult
           ELSE IF next = "fallback"
           THEN /\ k = 1
                /\ apPc' = "fallback"
                /\ apCall' = [apCall EXCEPT !.handler = "artist", !.author = ""]
                /\ UNCHANGED <<apQueue, apResult>>
           ELSE /\ k = 1
                /\ apPc' = "idle"
                /\ apResult' = next
                /\ apCall' = NoCall
                /\ UNCHANGED apQueue
  /\ UNCHANGED <<apHistory, apNext, notAutoPlayVars>>

\* the awaited player.play settles
PlaySettles(ok, taken) ==
  /\ apPc = "play"
  /\ apQueue' = PlayTakes(apQueue, taken)
  /\ apResult' = IF ok THEN "true" ELSE ExecuteCatch("play")
  /\ apPc' = "idle"
  /\ apCall' = NoCall
  /\ UNCHANGED <<apHistory, apNext, notAutoPlayVars>>

\* clearHistory()
clearHistory ==
  /\ apHistory' = << >>
  /\ UNCHANGED <<apNext, apQueue, apPc, apCall, apResult, notAutoPlayVars>>

AutoPlayStep ==
  \/ \E choice \in TrackChoices, connected \in BOOLEAN :
       Execute(choice, connected)
  \/ \E outcome \in SearchOutcomes, k \in 1 .. 2 : SearchSettles(outcome, k)
  \/ \E ok \in BOOLEAN, taken \in BOOLEAN : PlaySettles(ok, taken)
  \/ clearHistory

SpecAutoPlay == AutoPlayInit /\ [][AutoPlayStep]_vars

\* ------------------------------------------------------------ FilterBuilder
\* Numbers are in hundredths: a volume of 5.0 is 500, a gain of -0.25 is -25.
Volumes == {-1, 0, 250, 500, 501}

EqualizerBand(band, gain) == [band |-> band, gain |-> gain]

EqualizerBands ==
  { EqualizerBand(0, -25), EqualizerBand(14, 100), EqualizerBand(-1, 0),
    EqualizerBand(15, 0), EqualizerBand(0, -26), EqualizerBand(14, 101) }

BandLists ==
  UNION { [1 .. n -> EqualizerBands] : n \in 0 .. MaxBands }

\* a TimescaleFilter: each field may be undefined
TimescaleFilters ==
  [speed : {None, Some(-50), Some(0), Some(100)},
   pitch : {None, Some(0), Some(125)},
   rate : {None, Some(0), Some(100)}]

TremoloFilters == [frequency : {-100, 0, 200}, depth : {-1, 0, 100, 101}]

VibratoFilters == [frequency : {-1, 0, 1400, 1401}, depth : {-1, 50, 101}]

FilterNames == {"volume", "equalizer", "timescale", "tremolo", "vibrato"}

\* if (volume < 0 || volume > 5) throw
VolumeThrows(volume) == volume < 0 \/ volume > 500

BandThrows(band) ==
  \/ band.band < 0 \/ band.band > 14
  \/ band.gain < -25 \/ band.gain > 100

\* mutant: only the first band of the list is validated
EqualizerThrowsFirstOnly(bands) == bands # << >> /\ BandThrows(bands[1])

\* the validation loop of equalizer: the first band out of range throws
EqualizerThrows(bands) == \E i \in DOMAIN bands : BandThrows(bands[i])

Defined(option) == option # None

TimescaleThrows(options) ==
  \/ Defined(options.speed) /\ options.speed[1] <= 0
  \/ Defined(options.pitch) /\ options.pitch[1] <= 0
  \/ Defined(options.rate) /\ options.rate[1] <= 0

TremoloThrows(options) ==
  options.frequency <= 0 \/ options.depth < 0 \/ options.depth > 100

VibratoThrows(options) ==
  \/ options.frequency < 0 \/ options.frequency > 1400
  \/ options.depth < 0 \/ options.depth > 100

\* mutant: the value is assigned before it is validated
AssignUnvalidated(filters, name, value, throws) ==
  [filters EXCEPT ![name] = Some(value)]

\* this.filters[name] = value, reached only when the validation has not
\* thrown
Assign(filters, name, value, throws) ==
  IF throws THEN filters ELSE [filters EXCEPT ![name] = Some(value)]

FilterInit ==
  /\ FilterIdle
  /\ VoiceIdle
  /\ BackoffIdle
  /\ HttpIdle
  /\ NodeIdle
  /\ ClusterIdle
  /\ WithBackoffIdle
  /\ SessionsIdle
  /\ AutoPlayIdle

\* the record of a setter call: its name, its argument as the filters it
\* would set, and whether it threw
SetterCall(name, value, throws) ==
  [setter |-> name, patch |-> [NoFilters EXCEPT ![name] = Some(value)],
   threw |-> throws]

\* volume(volume)
volume(v) ==
  /\ fbCalls < MaxSetterCalls
  /\ fbFilters' = Assign(fbFilters, "volume", v, VolumeThrows(v))
  /\ fbLast' = SetterCall("volume", v, VolumeThrows(v))
  /\ fbCalls' = fbCalls + 1
  /\ UNCHANGED notFilterVars

\* equalizer(bands)
equalizer(bands) ==
  /\ fbCalls < MaxSetterCalls
  /\ fbFilters' = Assign(fbFilters, "equalizer", bands, EqualizerThrows(bands))
  /\ fbLast' = SetterCall("equalizer", bands, EqualizerThrows(bands))
  /\ fbCalls' = fbCalls + 1
  /\ UNCHANGED notFilterVars

\* timescale(options)
timescale(options) ==
  /\ fbCalls < MaxSetterCalls
  /\ fbFilters' = Assign(fbFilters, "timescale", options, TimescaleThrows(options))
  /\ fbLast' = SetterCall("timescale", options, TimescaleThrows(options))
  /\ fbCalls' = fbCalls + 1
  /\ UNCHANGED notFilterVars

\* tremolo(options)
tremolo(options) ==
  /\ fbCalls < MaxSetterCalls
  /\ fbFilters' = Assign(fbFilters, "tremolo", options, TremoloThrows(options))
  /\ fbLast' = SetterCall("tremolo", options, TremoloThrows(options))
  /\ fbCalls' = fbCalls + 1
  /\ UNCHANGED notFilterVars

\* vibrato(options)
vibrato(options) ==
  /\ fbCalls < MaxSetterCalls
  /\ fbFilters' = Assign(fbFilters, "vibrato", options, VibratoThrows(options))
  /\ fbLast' = SetterCall("vibrato", options, VibratoThrows(options))
  /\ fbCalls' = fbCalls + 1
  /\ UNCHANGED notFilterVars

\* clear(): this.filters = {}
clear ==
  /\ fbCalls < MaxSetterCalls
  /\ fbFilters' = NoFilters
  /\ fbLast' = [NoSetterCall EXCEPT !.setter = "clear"]
  /\ fbCalls' = fbCalls + 1
  /\ UNCHANGED notFilterVars

\* clearFilter(filter): delete this.filters[filter]
clearFilter(filter) ==
  /\ fbCalls < MaxSetterCalls
  /\ fbFilters' = [fbFilters EXCEPT ![filter] = None]
  /\ fbLast' = [NoSetterCall EXCEPT !.setter = "clearFilter"]
  /\ fbCalls' = fbCalls + 1
  /\ UNCHANGED notFilterVars

FilterStep ==
  \/ \E v \in Volumes : volume(v)
  \/ \E bands \in BandLists : equalizer(bands)
  \/ \E options \in TimescaleFilters : timescale(options)
  \/ \E options \in TremoloFilters : tremolo(options)
  \/ \E options \in VibratoFilters : vibrato(options)
  \/ clear
  \/ \E filter \in FilterNames : clearFilter(filter)

SpecFilter == FilterInit /\ [][FilterStep]_vars

\* ------------------------------------------------------------------ actions
Init ==
  /\ voiceStates = << >>
  /\ player \in InitialPlayers
  /\ pending = {}
  /\ trace = << >>
  /\ ops = 0
  /\ sent = << >>
  /\ BackoffIdle
  /\ HttpIdle
  /\ NodeIdle
  /\ ClusterIdle
  /\ RestIdle

\* handleVoiceUpdate: the packet's kind selects the handler, which runs up to
\* its first await; any other packet is dropped
handleVoiceUpdate(packet) ==
  /\ ops < MaxOps
  /\ LET g == packet.d.guild_id
         ev == Len(trace) + 1
     IN  IF packet.t = "VOICE_SERVER_UPDATE"
           THEN LET r == HandleServer(voiceStates, player[g], g, ev, packet.d)
                IN  /\ voiceStates' = r.states
                    /\ trace' = Append(trace,
                                  Ent("server", g, ev, packet.d.token,
                                      packet.d.endpoint, player[g], ""))
                                \o r.out
                    /\ pending' = pending \cup CallsOf(r.out)
                    /\ ops' = ops + 1
           ELSE IF packet.t = "VOICE_STATE_UPDATE"
           THEN LET r == HandleState(voiceStates, player[g], g, ev, packet.d)
                IN  /\ voiceStates' = r.states
                    /\ trace' = Append(trace,
                                  Ent("state", g, ev, packet.d.session_id,
                                      packet.d.channel_id, player[g],
                                      packet.d.user_id))
                                \o r.out
                    /\ pending' = pending \cup CallsOf(r.out)
                    /\ ops' = ops + 1
           ELSE UNCHANGED <<voiceStates, trace, pending, ops>>
  /\ UNCHANGED <<player, notVoiceVars>>

\* commands of one guild are delivered to the node in order
Oldest(p) == \A q \in pending : q.g = p.g => p.ev <= q.ev

\* an awaited player call settles and its handler runs to its end
PlayerCallResolves(p) ==
  /\ p \in pending /\ Oldest(p)
  /\ pending' = pending \ {p}
  /\ trace' = Append(trace, Ent("settle", p.g, p.ev, "ok", p.kind, "", ""))
              \o (IF p.kind = "update" THEN AfterUpdate(p.g, p.ev, "ok") ELSE << >>)
  /\ player' = IF p.kind = "disconnect"
                 THEN [player EXCEPT ![p.g] = NoPlayer] ELSE player
  /\ UNCHANGED <<voiceStates, ops, notVoiceVars>>

PlayerCallRejects(p) ==
  /\ p \in pending /\ Oldest(p)
  /\ pending' = pending \ {p}
  /\ trace' = Append(trace, Ent("settle", p.g, p.ev, NodeError, p.kind, "", ""))
              \o (IF p.kind = "update"
                    THEN AfterUpdate(p.g, p.ev, NodeError)
                    ELSE << Ent("rejected", p.g, p.ev, NodeError, "", "", "") >>)
  /\ UNCHANGED <<voiceStates, player, ops, notVoiceVars>>

clearVoiceState(g) ==
  /\ ops < MaxOps
  /\ voiceStates' = MapDelete(voiceStates, g)
  /\ trace' = Append(trace, Ent("clear", g, Len(trace) + 1, "", "", "", ""))
  /\ ops' = ops + 1
  /\ UNCHANGED <<player, pending, notVoiceVars>>

Next ==
  \/ \E packet \in Packets : handleVoiceUpdate(packet)
  \/ \E p \in pending : PlayerCallResolves(p)
  \/ \E p \in pending : PlayerCallRejects(p)
  \/ \E g \in Guilds : clearVoiceState(g)

Spec == Init /\ [][Next]_vars

\* the voice channel a guild's player is created for
PlayerChannel(g) == IF g = "G1" THEN "C1" ELSE "C3"

\* the manager creates the guild's player; from now on the events of the
\* guild are processed with it
createPlayer(g) ==
  /\ player[g] = NoPlayer
  /\ player' = [player EXCEPT ![g] = PlayerChannel(g)]
  /\ UNCHANGED <<voiceStates, pending, trace, ops, notVoiceVars>>

NextWithPlayers ==
  \/ Next
  \/ \E g \in Guilds : createPlayer(g)

\* the forwarder together with players that appear while it runs
SpecPlayers == Init /\ [][NextWithPlayers]_vars

\* `v ?? fallback`
Coalesce(v, fallback) == IF v \in {Null, Undefined} THEN fallback ELSE v

\* the options sendVoiceUpdate is called with; no options at all reads as
\* both fields undefined
NoOptions == [selfMute |-> Undefined, selfDeaf |-> Undefined]
SendOptions ==
  { NoOptions,
    [selfMute |-> "true", selfDeaf |-> Undefined],
    [selfMute |-> "false", selfDeaf |-> "true"] }

\* mutant: the options are copied without their defaults
DiscordVoicePayloadRaw(g, channel, options) ==
  [op |-> 4,
   d |-> [guild_id |-> g, channel_id |-> channel,
          self_mute |-> options.selfMute, self_deaf |-> options.selfDeaf]]

\* the op-4 payload sendVoiceUpdate builds
DiscordVoicePayload(g, channel, options) ==
  [op |-> 4,
   d |-> [guild_id |-> g, channel_id |-> channel,
          self_mute |-> Coalesce(options.selfMute, "false"),
          self_deaf |-> Coalesce(options.selfDeaf, "false")]]

\* sendVoiceUpdate(guildId, channelId, options)
sendVoiceUpdate(g, channel, options) ==
  /\ ops < MaxOps
  /\ sent' = Append(sent, [guildId |-> g,
                           payload |-> DiscordVoicePayload(g, channel, options)])
  /\ trace' = trace
              \o << Ent("send", g, Len(trace) + 1, channel, options.selfMute,
                        options.selfDeaf, ""),
                    Debug(g, Len(trace) + 1, "Sent voice update to Discord") >>
  /\ ops' = ops + 1
  /\ UNCHANGED <<voiceStates, player, pending, notSinkVars>>

\* the packets delivered while requests are sent
SendPackets ==
  { ServerPacket("G1", "T1", "E1"), StatePacket("G1", ClientId, "S1", "C1") }

NextWithSends ==
  \/ \E packet \in SendPackets : handleVoiceUpdate(packet)
  \/ \E p \in pending : PlayerCallResolves(p)
  \/ \E p \in pending : PlayerCallRejects(p)
  \/ \E g \in Guilds, channel \in {"C1", Null}, options \in SendOptions :
       sendVoiceUpdate(g, channel, options)

\* the forwarder together with the requests sent to the gateway
SpecSend == Init /\ [][NextWithSends]_vars

\* ------------------------------------------------------ reading the trace
Idx == DOMAIN trace

IsServerEv(e) == e.k = "server"
IsBotState(e) == e.k = "state" /\ e.d = ClientId
IsJoin(e) == IsBotState(e) /\ Truthy(e.b)
IsDepartureEv(e) == IsBotState(e) /\ ~Truthy(e.b)
IsUpdateCall(e) == e.k = "update"
IsForwarded(e) == e.k = "debug" /\ e.a = "Forwarded voice state"
WithPlayer(e) == e.c # NoPlayer

\* the entries the step being taken appends
Added == (DOMAIN trace') \ (DOMAIN trace)

\* handler calls and clears made for guild g
OpsOf(g) ==
  { i \in Idx : trace[i].g = g /\ trace[i].k \in {"server", "state", "clear"} }

UpdateCallsOf(g) == { i \in Idx : trace[i].g = g /\ IsUpdateCall(trace[i]) }

\* ------------------------------------------------------------------ claims

\* C1: player.updateVoiceState is called only while the guild's stored state
\* holds a session id, a token and an endpoint, and the payload passed is
\* exactly the stored (token, endpoint, sessionId).
C1_ForwardOnlyComplete ==
  [][ \A i \in Added :
        IsUpdateCall(trace'[i]) =>
          LET g == trace'[i].g IN
          /\ g \in DOMAIN voiceStates'
          /\ Truthy(voiceStates'[g].sessionId)
          /\ Truthy(voiceStates'[g].token)
          /\ Truthy(voiceStates'[g].endpoint)
          /\ trace'[i].a = voiceStates'[g].token
          /\ trace'[i].b = voiceStates'[g].endpoint
          /\ trace'[i].c = voiceStates'[g].sessionId ]_vars

\* a credential was forwarded, and an earlier event of the same guild handled
\* with a player forwarded nothing because a fragment was missing
C1_Witness ==
  \E u \in Idx :
    /\ IsUpdateCall(trace[u])
    /\ \E i \in Idx :
         /\ i < trace[u].ev /\ trace[i].g = trace[u].g
         /\ trace[i].k \in {"server", "state"} /\ WithPlayer(trace[i])
         /\ \A j \in Idx : trace[j].ev = i => ~IsUpdateCall(trace[j])

\* C2: forwarding happens once per distinct complete pair: two successive
\* player.updateVoiceState calls of one guild never carry the same triple.
C2_OncePerDistinctPair ==
  \A g \in Guilds : \A i, j \in UpdateCallsOf(g) :
    (i < j /\ \A m \in UpdateCallsOf(g) : ~(i < m /\ m < j)) =>
      <<trace[i].a, trace[i].b, trace[i].c>>
        # <<trace[j].a, trace[j].b, trace[j].c>>

\* C3: forwardVoiceState never raises 'Incomplete voice state'.
C3_IncompleteUnreachable ==
  \A i \in Idx : ~(trace[i].k = "throw" /\ trace[i].a = IncompleteError)

\* C4: for a guild with a player and no stored state, a state event (C, S) and
\* a server event (T, E), processed in either order, produce exactly one
\* player.updateVoiceState call, with {T, E, S}, no error, and the stored
\* state {guild, C, S, T, E}.
C4_OrderIndependent ==
  \A g \in Guilds : \A s, v \in OpsOf(g) :
    ( /\ OpsOf(g) = {s, v}
      /\ IsJoin(trace[s]) /\ Truthy(trace[s].a) /\ WithPlayer(trace[s])
      /\ IsServerEv(trace[v]) /\ Truthy(trace[v].a) /\ Truthy(trace[v].b)
      /\ WithPlayer(trace[v]) )
    => /\ \E u \in Idx :
            /\ UpdateCallsOf(g) = {u}
            /\ trace[u].a = trace[v].a /\ trace[u].b = trace[v].b
            /\ trace[u].c = trace[s].a
       /\ \A i \in Idx : trace[i].g = g => trace[i].k # "throw"
       /\ g \in DOMAIN voiceStates
       /\ voiceStates[g] = [guildId |-> g, channelId |-> trace[s].b,
                            sessionId |-> trace[s].a, token |-> trace[v].a,
                            endpoint |-> trace[v].b]

\* the order in which the server event comes first has been run on a guild
\* that had no stored state, and ended with its one forward
C4_Witness ==
  \E g \in Guilds : \E s, v \in OpsOf(g) :
    /\ OpsOf(g) = {s, v} /\ v < s
    /\ IsServerEv(trace[v]) /\ WithPlayer(trace[v])
    /\ IsJoin(trace[s]) /\ WithPlayer(trace[s])
    /\ \E u \in Idx : UpdateCallsOf(g) = {u} /\ trace[u].ev = s

\* C5: a bot state event with an empty channel removes the guild's credential
\* state, requests the player's teardown and forwards nothing; after it no
\* player.updateVoiceState call is started for the guild before both a state
\* event carrying a channel and a server event have been processed.
C5_DepartureIsDefinitive ==
  [][ /\ \A i \in Added :
           IsDepartureEv(trace'[i]) =>
             /\ trace'[i].g \notin DOMAIN voiceStates'
             /\ WithPlayer(trace'[i]) =>
                  \E j \in Added : /\ trace'[j].k = "disconnect"
                                   /\ trace'[j].ev = i
                                   /\ trace'[j].g = trace'[i].g
             /\ \A j \in Added : ~IsUpdateCall(trace'[j])
      /\ \A i, u \in DOMAIN trace' :
           ( /\ IsDepartureEv(trace'[i]) /\ IsUpdateCall(trace'[u])
             /\ trace'[i].g = trace'[u].g /\ i < u )
           => \E s, v \in DOMAIN trace' :
                /\ i < s /\ s < u /\ i < v /\ v < u
                /\ trace'[s].g = trace'[u].g /\ IsJoin(trace'[s])
                /\ trace'[v].g = trace'[u].g /\ IsServerEv(trace'[v]) ]_vars

\* a departure handled with a player, whose guild was forwarded again later
C5_Witness ==
  \E i, u \in Idx :
    /\ IsDepartureEv(trace[i]) /\ WithPlayer(trace[i])
    /\ IsUpdateCall(trace[u]) /\ trace[u].g = trace[i].g /\ i < u

\* C6: when player.updateVoiceState rejects, the handleVoiceUpdate call that
\* made it rejects with the same error and emits no 'forwarded' notification.
C6_FailureSurfaced ==
  \A i \in Idx :
    (trace[i].k = "settle" /\ trace[i].b = "update" /\ trace[i].a # "ok") =>
      /\ \E j \in Idx : /\ i < j /\ trace[j].k = "rejected"
                        /\ trace[j].ev = trace[i].ev /\ trace[j].a = trace[i].a
      /\ \A j \in Idx : IsForwarded(trace[j]) => trace[j].ev # trace[i].ev

\* a forward has failed
C6_Witness ==
  \E i \in Idx :
    trace[i].k = "settle" /\ trace[i].b = "update" /\ trace[i].a = NodeError

\* C7: a bot state event whose non-empty channel differs from the player's
\* emits playerMove(player, old, new), and emits it before the
\* player.updateVoiceState call made for the same event.
C7_MoveBeforeForward ==
  \A i \in Idx :
    (IsJoin(trace[i]) /\ WithPlayer(trace[i]) /\ trace[i].c # trace[i].b) =>
      \E m \in Idx :
        /\ trace[m].k = "playerMove" /\ trace[m].ev = i
        /\ trace[m].a = trace[i].c /\ trace[m].b = trace[i].b
        /\ \A u \in Idx :
             (IsUpdateCall(trace[u]) /\ trace[u].ev = i) => m < u

\* one event caused both a move notification and a forward
C7_Witness ==
  \E m, u \in Idx :
    /\ trace[m].k = "playerMove" /\ IsUpdateCall(trace[u])
    /\ trace[m].ev = trace[u].ev

\* the latest entry before u of guild g that satisfies the test
LatestBefore(u, g, IsKind(_)) ==
  { i \in Idx : /\ i < u /\ trace[i].g = g /\ IsKind(trace[i])
                /\ \A j \in Idx :
                     (j < u /\ trace[j].g = g /\ IsKind(trace[j])) => j <= i }

\* C8: also with overlapping handlers, every payload passed to
\* player.updateVoiceState has the token and endpoint of the latest server
\* event and the session id of the latest bot state event processed for that
\* guild when the call was made.
C8_NoTornRead ==
  \A u \in Idx :
    IsUpdateCall(trace[u]) =>
      /\ \E v \in LatestBefore(u, trace[u].g, IsServerEv) :
           trace[u].a = trace[v].a /\ trace[u].b = trace[v].b
      /\ \E s \in LatestBefore(u, trace[u].g, IsBotState) :
           trace[u].c = trace[s].a

\* a forward was started while an earlier forward of the same guild, with
\* another payload, was still awaited
C8_Witness ==
  \E p, q \in pending :
    /\ p.g = q.g /\ p.ev < q.ev /\ p.kind = "update" /\ q.kind = "update"
    /\ \E i, j \in Idx :
         /\ IsUpdateCall(trace[i]) /\ trace[i].ev = p.ev
         /\ IsUpdateCall(trace[j]) /\ trace[j].ev = q.ev
         /\ <<trace[i].a, trace[i].b>> # <<trace[j].a, trace[j].b>>

\* C9: two player.updateVoiceState calls of one guild are never in flight at
\* the same time.
C9_SendsSerialized ==
  \A p, q \in pending :
    (p.g = q.g /\ p.kind = "update" /\ q.kind = "update") => p = q

\* C10: the 'forwarded' notification of an event is never emitted after a
\* playerMove, a 'forwarded' or a teardown caused by a later event of the
\* same guild.
C10_NotificationsInOrder ==
  \A f, n \in Idx :
    ( /\ IsForwarded(trace[f]) /\ trace[n].g = trace[f].g
      /\ trace[n].ev > trace[f].ev
      /\ (trace[n].k \in {"playerMove", "disconnect"} \/ IsForwarded(trace[n])) )
    => f < n

IsForeignState(e) == e.k = "state" /\ e.d # ClientId

\* C26: a VOICE_STATE_UPDATE of another user is ignored entirely, also when
\* it carries an empty channel: the stored voice states are unchanged, no
\* notification is emitted, and neither player.updateVoiceState nor
\* player.disconnect is called.
C26_ForeignStateIgnored ==
  /\ [](\A j \in Idx : IsForeignState(trace[trace[j].ev]) => j = trace[j].ev)
  /\ [][\A i \in Added :
          IsForeignState(trace'[i]) =>
            /\ Added = {i}
            /\ voiceStates' = voiceStates
            /\ pending' = pending]_vars

\* another user's departure was processed, with a player, for a guild whose
\* credential is stored, and the credential is still there
C26_Witness ==
  \E i \in Idx :
    /\ IsForeignState(trace[i]) /\ ~Truthy(trace[i].b) /\ WithPlayer(trace[i])
    /\ i > 1
    /\ trace[i].g \in DOMAIN voiceStates
    /\ i = Len(trace)

\* the update calls the step being taken makes
AddedUpdates == { j \in Added : IsUpdateCall(trace'[j]) }

\* C25: while a guild's stored credential is complete, every event processed
\* with a player that replaces a fragment with present values (a server event
\* with a token and an endpoint, or a bot state event with a session id and a
\* channel) causes exactly one player.updateVoiceState call, and the call
\* carries the updated triple: the fragment of the event and the other
\* fragment as stored.
C25_ReforwardOnChange ==
  [][\A i \in Added :
       LET e == trace'[i]
           g == e.g
       IN  ( /\ WithPlayer(e)
             /\ g \in DOMAIN voiceStates
             /\ IsComplete(voiceStates[g])
             /\ \/ IsServerEv(e) /\ Truthy(e.a) /\ Truthy(e.b)
                \/ IsJoin(e) /\ Truthy(e.a) )
           => /\ Cardinality(AddedUpdates) = 1
              /\ \A j \in AddedUpdates :
                   /\ trace'[j].g = g /\ trace'[j].ev = i
                   /\ IF IsServerEv(e)
                        THEN /\ trace'[j].a = e.a /\ trace'[j].b = e.b
                             /\ trace'[j].c = voiceStates[g].sessionId
                        ELSE /\ trace'[j].a = voiceStates[g].token
                             /\ trace'[j].b = voiceStates[g].endpoint
                             /\ trace'[j].c = e.a]_vars

\* a complete credential was forwarded, and a later bot state event with
\* another session id was forwarded again, with the new session id
C25_Witness ==
  \E i, j \in Idx :
    /\ i < j /\ IsUpdateCall(trace[i]) /\ IsUpdateCall(trace[j])
    /\ trace[i].g = trace[j].g
    /\ trace[i].c # trace[j].c
    /\ IsJoin(trace[trace[j].ev])

IsHandlerEv(e) == IsServerEv(e) \/ IsBotState(e)

\* C30: an event processed without a player is still recorded (a server
\* event stores token and endpoint, a bot state event with a channel stores
\* session id and channel, one without a channel removes the guild's state),
\* but nothing is forwarded, no playerMove is emitted and no teardown is
\* requested; every player.updateVoiceState call is made by an event that
\* was processed with a player.
C30_NoPlayerRecordsOnly ==
  /\ [](\A u \in Idx :
          IsUpdateCall(trace[u]) => WithPlayer(trace[trace[u].ev]))
  /\ [][\A i \in Added :
          LET e == trace'[i]
              g == e.g
          IN  (IsHandlerEv(e) /\ ~WithPlayer(e)) =>
                /\ \A j \in Added :
                     trace'[j].k \notin
                       {"update", "playerMove", "disconnect", "throw"}
                /\ pending' = pending
                /\ IsServerEv(e) =>
                     /\ g \in DOMAIN voiceStates'
                     /\ voiceStates'[g].token = e.a
                     /\ voiceStates'[g].endpoint = e.b
                /\ IsJoin(e) =>
                     /\ g \in DOMAIN voiceStates'
                     /\ voiceStates'[g].sessionId = e.a
                     /\ voiceStates'[g].channelId = e.b
                /\ IsDepartureEv(e) => g \notin DOMAIN voiceStates']_vars

\* both fragments arrived without a player and completed the credential; a
\* later event, processed with a player, forwarded it
C30_Witness ==
  \E u, i, j \in Idx :
    /\ IsUpdateCall(trace[u])
    /\ i < trace[u].ev /\ j < trace[u].ev
    /\ trace[i].g = trace[u].g /\ trace[j].g = trace[u].g
    /\ IsServerEv(trace[i]) /\ ~WithPlayer(trace[i])
    /\ Truthy(trace[i].a) /\ Truthy(trace[i].b)
    /\ IsJoin(trace[j]) /\ ~WithPlayer(trace[j]) /\ Truthy(trace[j].a)
    /\ WithPlayer(trace[trace[u].ev])

IsMove(e) == e.k = "playerMove"

\* C31: a channel move is notified once: after a bot state event carrying
\* channel C2 has emitted playerMove, a later bot state event of the same
\* guild that still carries C2 (no bot state event with another channel in
\* between) does not emit playerMove again.
C31_MoveNotifiedOnce ==
  \A m, n \in Idx :
    ( /\ IsMove(trace[m]) /\ IsMove(trace[n])
      /\ trace[m].g = trace[n].g
      /\ trace[m].ev < trace[n].ev
      /\ trace[m].b = trace[n].b )
    => \E s \in Idx :
         /\ trace[m].ev < s /\ s < trace[n].ev
         /\ trace[s].g = trace[m].g
         /\ IsBotState(trace[s]) /\ trace[s].b # trace[m].b

\* the last bot state event processed for guild g, if any
LastBotState(g) == LatestBefore(Len(trace) + 1, g, IsBotState)

\* C32: the stored voice state is well-formed after every handler step: each
\* entry has guildId equal to its key, an entry that holds a session id also
\* holds a non-empty channel id, and no entry exists for a guild whose last
\* processed bot state event carried an empty channel unless a server event
\* arrived after it.
C32_StoredStateWellFormed ==
  /\ \A g \in DOMAIN voiceStates :
       /\ voiceStates[g].guildId = g
       /\ Truthy(voiceStates[g].sessionId) => Truthy(voiceStates[g].channelId)
  /\ \A g \in Guilds : \A s \in LastBotState(g) :
       (IsDepartureEv(trace[s]) /\ g \in DOMAIN voiceStates) =>
         \E v \in Idx : v > s /\ trace[v].g = g /\ IsServerEv(trace[v])

\* a guild whose bot left its channel holds an entry again, created by a
\* later server event, while another guild holds a session id and a channel
C32_Witness ==
  \E g, h \in Guilds :
    /\ g # h
    /\ g \in DOMAIN voiceStates /\ h \in DOMAIN voiceStates
    /\ \E s \in LastBotState(g) : IsDepartureEv(trace[s])
    /\ Truthy(voiceStates[h].sessionId)

IsGuildOp(e) == e.k \in {"server", "state", "clear"}

\* C33: guild isolation: processing a voice event for guild A, or calling
\* clearVoiceState(A), leaves the stored credential state of every other
\* guild B unchanged, and every player.updateVoiceState call it makes is for
\* A and carries A's stored fragments.
C33_GuildIsolation ==
  [][\A i \in Added :
       IsGuildOp(trace'[i]) =>
         LET A == trace'[i].g IN
         /\ \A B \in Guilds \ {A} :
              /\ (B \in DOMAIN voiceStates') = (B \in DOMAIN voiceStates)
              /\ B \in DOMAIN voiceStates => voiceStates'[B] = voiceStates[B]
              /\ \A p \in pending' \ pending : p.g # B
         /\ \A u \in AddedUpdates :
              /\ trace'[u].g = A
              /\ A \in DOMAIN voiceStates'
              /\ trace'[u].a = voiceStates'[A].token
              /\ trace'[u].b = voiceStates'[A].endpoint
              /\ trace'[u].c = voiceStates'[A].sessionId]_vars

\* a guild's events were processed and its entry then cleared (or its bot
\* left), while another guild still holds the fragments it stored before
C33_Witness ==
  \E A, B \in Guilds :
    /\ A # B
    /\ B \in DOMAIN voiceStates /\ Truthy(voiceStates[B].token)
    /\ \E v, c \in Idx :
         /\ IsServerEv(trace[v]) /\ trace[v].g = B
         /\ trace[c].g = A /\ v < c
         /\ (trace[c].k = "clear" \/ IsDepartureEv(trace[c]))
         /\ \E j \in Idx : j < c /\ j > v /\ trace[j].g = A /\ IsGuildOp(trace[j])

IsSendEv(e) == e.k = "send"
SendsIn(t) == { i \in DOMAIN t : IsSendEv(t[i]) }

\* C27: sendVoiceUpdate hands exactly one op-4 payload to the sink, carrying
\* the guild id, the channel id, and self_mute and self_deaf as given or
\* false when not given, and leaves every guild's credential state unchanged.
C27_SendVoiceUpdate ==
  /\ [](Cardinality(SendsIn(trace)) = Len(sent))
  /\ [][\A i \in Added :
          LET e == trace'[i] IN
            IsSendEv(e) =>
              /\ Len(sent') = Len(sent) + 1
              /\ sent'[Len(sent')].guildId = e.g
              /\ sent'[Len(sent')].payload =
                   [op |-> 4,
                    d |-> [guild_id |-> e.g, channel_id |-> e.a,
                           self_mute |-> IF e.b = Undefined THEN "false" ELSE e.b,
                           self_deaf |-> IF e.c = Undefined THEN "false" ELSE e.c]]
              /\ voiceStates' = voiceStates
              /\ pending' = pending]_vars

\* a request without options was sent for a guild whose credential is stored
C27_Witness ==
  /\ sent # << >>
  /\ LET last == sent[Len(sent)] IN
       /\ last.guildId \in DOMAIN voiceStates
       /\ IsComplete(voiceStates[last.guildId])
       /\ last.payload.d.self_mute = "false"
       /\ last.payload.d.self_deaf = "false"
       /\ IsSendEv(trace[Len(trace) - 1])
       /\ trace[Len(trace) - 1].b = Undefined

\* --------------------------------------------------- claims on the backoff
Calls == DOMAIN boHist
IsDelay(i) == boHist[i].kind = "delay"

\* C11: every delay d returned by next() satisfies
\* 0 <= d <= maxDelay * (1 + jitter).
C11_DelayBounded ==
  \A i \in Calls :
    IsDelay(i) =>
      /\ 0 <= boHist[i].value
      /\ 100 * boHist[i].value <= boOptions.maxDelay * (100 + boOptions.jitter)

\* the cap was in force and the jitter lifted a delay above maxDelay
C11_Witness ==
  \E i \in Calls :
    /\ IsDelay(i) /\ boHist[i].value > boOptions.maxDelay
    /\ boOptions.baseDelay * Pow2(i - 1) > boOptions.maxDelay

\* C12: with maxAttempts = N > 0 exactly the first N calls of next() since
\* construction or the last reset() return a delay and every further call
\* throws, leaving the attempt counter as it was; with maxAttempts = 0 no call
\* throws.
C12_Exhaustion ==
  /\ \A i \in Calls :
       IsDelay(i) <=> (boOptions.maxAttempts = 0 \/ i <= boOptions.maxAttempts)
  /\ boAttempt = Cardinality({ i \in Calls : IsDelay(i) })

\* a policy of three attempts was called five times
C12_Witness ==
  /\ boOptions.maxAttempts = 3 /\ Len(boHist) = 5
  /\ ~IsDelay(4) /\ ~IsDelay(5) /\ boAttempt = 3

\* C13: with jitter = 0 the n-th call of next(), n counted from 0, returns
\* min(baseDelay * 2^n, maxDelay); the delays never decrease and stay at
\* maxDelay once they reached it.
C13_UnjitteredSequence ==
  boOptions.jitter = 0 =>
    /\ \A i \in Calls :
         IsDelay(i) =>
           boHist[i].value =
             IF boOptions.baseDelay * Pow2(i - 1) <= boOptions.maxDelay
               THEN boOptions.baseDelay * Pow2(i - 1) ELSE boOptions.maxDelay
    /\ \A i, j \in Calls :
         (IsDelay(i) /\ IsDelay(j) /\ i < j) =>
           /\ boHist[i].value <= boHist[j].value
           /\ boHist[i].value = boOptions.maxDelay =>
                boHist[j].value = boOptions.maxDelay

\* an unjittered policy grew, reached its cap and was called again
C13_Witness ==
  /\ boOptions.jitter = 0
  /\ \E i, j, m \in Calls :
       /\ i < j /\ j < m /\ IsDelay(m)
       /\ boHist[i].value < boHist[j].value
       /\ boHist[j].value = boOptions.maxDelay
       /\ boHist[m].value = boOptions.maxDelay

\* C14: reset() returns the policy to its initial state from any state:
\* afterwards getAttempt() = 0, hasReachedMaxAttempts() is false, the options
\* are untouched, the remaining attempts are those of a new policy, a second
\* reset() changes nothing, and the calls that follow are permitted and, if
\* unjittered, valued as those of a new policy.
C14_ResetRestores ==
  [][ /\ boResets' = boResets + 1 =>
           /\ boAttempt' = 0
           /\ boOptions' = boOptions
           /\ ~hasReachedMaxAttempts(boOptions', boAttempt')
           /\ getRemainingAttempts(boOptions', boAttempt')
                = getRemainingAttempts(boOptions, 0)
           /\ ResetAttempt(boOptions', boAttempt') = boAttempt'
      /\ boResets' > 0 =>
           /\ \A i \in DOMAIN boHist' :
                (boHist'[i].kind = "delay")
                  <=> (boOptions.maxAttempts = 0 \/ i <= boOptions.maxAttempts)
           /\ boOptions.jitter = 0 =>
                \A i \in DOMAIN boHist' :
                  boHist'[i].kind = "delay" =>
                    boHist'[i].value =
                      Min(boOptions.baseDelay * Pow2(i - 1), boOptions.maxDelay)
    ]_vars

\* an exhausted policy was reset and then gave its full number of delays
C14_Witness ==
  /\ boResets > 0 /\ boOptions.maxAttempts = 3 /\ boResetFrom = 3
  /\ Len(boHist) = 4 /\ IsDelay(3) /\ ~IsDelay(4)

\* C29: the accessors of the backoff agree in every reachable state.  For
\* maxAttempts = N > 0 the attempt counter lies in 0 .. N and
\* getRemainingAttempts() is N minus it; for maxAttempts = 0
\* getRemainingAttempts() is -1 and hasReachedMaxAttempts() is false; and a
\* call of next() throws exactly when hasReachedMaxAttempts() was true.
C29_AccessorsConsistent ==
  /\ [](LET N == boOptions.maxAttempts IN
          /\ N > 0 =>
               /\ boAttempt \in 0 .. N
               /\ getRemainingAttempts(boOptions, boAttempt) = N - boAttempt
          /\ N = 0 =>
               /\ getRemainingAttempts(boOptions, boAttempt) = -1
               /\ ~hasReachedMaxAttempts(boOptions, boAttempt))
  /\ [][Len(boHist') = Len(boHist) + 1 =>
          ((boHist'[Len(boHist')].kind = "throw")
             <=> hasReachedMaxAttempts(boOptions, boAttempt))]_vars

\* an exhausted policy whose next() has thrown
C29_Witness ==
  /\ boOptions.maxAttempts = 3
  /\ boAttempt = 3
  /\ hasReachedMaxAttempts(boOptions, boAttempt)
  /\ getRemainingAttempts(boOptions, boAttempt) = 0
  /\ boHist # << >>
  /\ boHist[Len(boHist)].kind = "throw"

\* ---------------------------------------------------- claims on withBackoff
Invocations == DOMAIN wbCalls
AllFailed == \A i \in Invocations : ~wbCalls[i].ok

\* what C28 says on the number of invocations and on a success
AtMostNUntilSuccess ==
  LET N == boOptions.maxAttempts IN
    N > 0 =>
      /\ Len(wbCalls) <= N
      /\ \A i \in Invocations : wbCalls[i].ok => i = Len(wbCalls)
      /\ (wbPc = "resolved") <=> (wbCalls # << >> /\ wbCalls[Len(wbCalls)].ok)
      /\ wbPc = "resolved" => wbResult = wbCalls[Len(wbCalls)].value
      /\ wbPc = "rejected" => Len(wbCalls) = N /\ AllFailed
      /\ (Len(wbCalls) = N /\ AllFailed) => wbPc \in {"sleeping", "rejected"}

C34_NoSleepAfterLastAttempt ==
  LET N == boOptions.maxAttempts IN
    (N > 0 /\ AllFailed) =>
      /\ wbPc = "sleeping" => Len(wbCalls) < N
      /\ wbPc = "rejected" => wbSleeps = N - 1

\* -------------------------------------------------- claims on HttpClient
IsIssued(i) == i \in DOMAIN http
HasSettled(i) == i \in DOMAIN http /\ http[i].pc \in Settled

\* C15: every HttpClient.request eventually settles; a request the backend
\* never answers is rejected with a timeout error.
C15_RequestSettles ==
  \A i \in 1 .. MaxRequests : IsIssued(i) ~> HasSettled(i)

\* ------------------------------------------- claims on the NodeConnection
\* C18: reconnection gives up exactly once.  With maxAttempts = 3 a
\* connection whose attempts keep failing is retried three times; the fourth
\* failure, and no other, moves it to Closed with exactly one fatal
\* node-lost notification, and no reconnect is scheduled after that.
C18_GivesUpOnce ==
  boOptions.maxAttempts = 3 =>
    /\ ncRetries <= 3
    /\ ncFailures <= 4
    /\ ncFatal <= 1
    /\ (ncFailures = 4 <=> ncFatal = 1)
    /\ (ncFatal = 1 => ncStatus = "Closed" /\ ncRetries = 3 /\ ~ncTimer)

\* three retries have failed and the fourth failure has closed the connection
C18_Witness ==
  /\ boOptions.maxAttempts = 3
  /\ ncStatus = "Closed"
  /\ ncFatal = 1
  /\ ncRetries = 3
  /\ ncFailures = 4

\* C19: every successful transition to Connected resets the backoff attempt
\* counter to zero, so that after any later unexpected close the connection
\* gives up only when the full maxAttempts retries have been made.
C19_ConnectedResets ==
  /\ (ncStatus = "Connected" =>
        /\ boAttempt = 0
        /\ getRemainingAttempts(boOptions, boAttempt) =
             (IF boOptions.maxAttempts = 0 THEN -1 ELSE boOptions.maxAttempts))
  /\ (ncFatal = 1 => ncRetries = boOptions.maxAttempts)

\* a connection that reconnected after a failure, closed again, and was then
\* retried the full number of times before it gave up
C19_Witness ==
  /\ ncConnects = 2
  /\ boOptions.maxAttempts = 3
  /\ ncFatal = 1
  /\ ncRetries = 3

\* C20: an explicit disconnect pre-empts a pending reconnect.  A Closed
\* connection has no timer pending, makes no further connect attempt and
\* never leaves Closed, also when disconnect was called in Reconnecting.
C20_DisconnectPreempts ==
  /\ [](ncStatus = "Closed" => ~ncTimer)
  /\ [][ncStatus = "Closed" =>
          /\ ncStatus' = "Closed"
          /\ ncRetries' = ncRetries
          /\ ~ncTimer']_vars

\* disconnect was called while a reconnect was scheduled
C20_Witness ==
  /\ ncClosedFrom = "Reconnecting"
  /\ ncStatus = "Closed"
  /\ ncFatal = 0

FailedSends ==
  { i \in DOMAIN ncSendLog : ncSendLog[i].status # "Connected" }

\* the commands of the send calls made while the connection was Connected
SentWhileConnected ==
  LET served == SelectSeq(ncSendLog, LAMBDA e : e.status = "Connected")
  IN  [i \in DOMAIN served |-> served[i].command]

\* C22: send on a NodeConnection whose status is not Connected fails with
\* NotConnectedError and dispatches nothing to the backend, and the command
\* is not retried later: the backend receives exactly the commands sent
\* while the connection was Connected, each at the time it was sent.
C22_SendNotConnected ==
  /\ [](/\ \A i \in FailedSends : ncSendLog[i].result = NotConnectedError
        /\ ncDispatched = SentWhileConnected)
  /\ [][ncDispatched' # ncDispatched =>
          /\ ncStatus = "Connected"
          /\ Len(ncSendLog') = Len(ncSendLog) + 1]_vars

\* a command was refused while a reconnect was scheduled; the connection
\* reconnected and served another command, and only that one reached the
\* backend
C22_Witness ==
  /\ Len(ncSendLog) = 2
  /\ ncSendLog[1].status = "Reconnecting"
  /\ ncSendLog[1].result = NotConnectedError
  /\ ncSendLog[2].status = "Connected"
  /\ ncSendLog[2].command # ncSendLog[1].command
  /\ ncDispatched = << ncSendLog[2].command >>

\* ------------------------------------------------------ claims on AutoPlay
Played == { apHistory[i] : i \in DOMAIN apHistory }
Earliest(ids) == CHOOSE x \in ids : \A y \in ids : x <= y

\* C35: the played history is bounded: after any sequence of execute and
\* clearHistory calls getHistorySize() <= 50; every new identifier is
\* recorded, and when it is the 51st the identifier that was inserted
\* earliest (identifiers are numbered in the order of their first use) is
\* the one evicted.
C35_HistoryBounded ==
  /\ [](Len(apHistory) <= maxHistorySize)
  /\ [][apNext' # apNext =>
          LET after == { apHistory'[i] : i \in DOMAIN apHistory' } IN
          IF Len(apHistory) < maxHistorySize
            THEN after = Played \cup {apNext}
            ELSE after = (Played \ {Earliest(Played)}) \cup {apNext}]_vars

\* the history is full and its two earliest identifiers have been evicted
C35_Witness ==
  /\ Len(apHistory) = maxHistorySize
  /\ apHistory[1] = 3
  /\ apNext = 53

\* C36: execute never rejects because a search or play call failed (it
\* resolves false instead), and whenever it resolves false the player's
\* queue is the same as before the call.
C36_FalseLeavesQueue ==
  /\ [](apResult # "rejected")
  /\ [][(apPc' = "idle" /\ apResult' = "false") =>
          apQueue' = IF apPc = "idle" THEN apQueue ELSE apCall.before]_vars

\* ------------------------------------------------ claims on FilterBuilder
InRange(x, lo, hi) == lo <= x /\ x <= hi

\* the arguments C37 lists as rejected, read from the recorded call
Rejected(call) ==
  LET arg == call.patch[call.setter][1] IN
  IF call.setter = "volume" THEN ~InRange(arg, 0, 500)
  ELSE IF call.setter = "equalizer"
    THEN \E i \in DOMAIN arg :
           ~InRange(arg[i].band, 0, 14) \/ ~InRange(arg[i].gain, -25, 100)
  ELSE IF call.setter = "timescale"
    THEN \E f \in {"speed", "pitch", "rate"} : arg[f] # None /\ arg[f][1] <= 0
  ELSE IF call.setter = "tremolo"
    THEN arg.frequency <= 0 \/ ~InRange(arg.depth, 0, 100)
  ELSE IF call.setter = "vibrato"
    THEN ~InRange(arg.frequency, 0, 1400) \/ ~InRange(arg.depth, 0, 100)
  ELSE FALSE

\* C37: a FilterBuilder setter given an argument it rejects (volume outside
\* [0, 5], an equalizer band outside 0..14 or gain outside [-0.25, 1.0]
\* anywhere in the list, non-positive timescale speed/pitch/rate, tremolo or
\* vibrato out of range) throws, and a setter that throws leaves the
\* builder's configuration exactly as it was before the call.
C37_RejectedSetterKeepsConfig ==
  [][fbCalls' # fbCalls =>
       /\ Rejected(fbLast') => fbLast'.threw
       /\ fbLast'.threw => fbFilters' = fbFilters]_vars

\* an equalizer list whose second band is out of range was rejected while
\* another equalizer list was set, and that one is still there
C37_Witness ==
  /\ fbLast.setter = "equalizer" /\ fbLast.threw
  /\ LET bands == fbLast.patch.equalizer[1] IN
       Len(bands) = 2 /\ ~BandThrows(bands[1]) /\ BandThrows(bands[2])
  /\ fbFilters.equalizer # None
  /\ fbFilters.equalizer[1] # << >>

\* ----------------------------------------- claims on the ClusterRegistry
HasSelection == clResult.node # "no-selection"
Selectable(n) ==
  /\ n \in Registered(clNodes)
  /\ clStatus[n] = "Connected"
  /\ n \notin clResult.excluded

\* C16: whenever some Connected node is not excluded, selectNode returns a
\* Connected, non-excluded node whose penalty score is at most that of every
\* other such candidate; it never returns a node that is not Connected or
\* that is excluded, also after the previously best node has disconnected.
C16_SelectsLowestPenalty ==
  HasSelection =>
    /\ (\E n \in NodeIds : Selectable(n)) => clResult.node \in NodeIds
    /\ clResult.node \in NodeIds =>
         /\ Selectable(clResult.node)
         /\ \A m \in NodeIds :
              Selectable(m) =>
                PenaltyScore(clStatus[clResult.node], clLoad[clResult.node])
                  <= PenaltyScore(clStatus[m], clLoad[m])

\* penalties 50, 10, 90 in registration order; the node of penalty 10 has
\* left Connected and an excluding selection returns the next-lowest
C16_Witness ==
  /\ clNodes = <<"N1", "N2", "N3">>
  /\ clLoad = [n \in NodeIds |->
                 IF n = "N1" THEN 50 ELSE IF n = "N2" THEN 10 ELSE 90]
  /\ clStatus["N2"] # "Connected"
  /\ clStatus["N3"] = "Connected"
  /\ clResult = [excluded |-> {"N2"}, node |-> "N1"]

\* C17: on a node set in which no node is Connected, the empty set
\* included, selectNode fails with NoAvailableNodeError and returns no node.
C17_NoAvailableNode ==
  (HasSelection /\ \A n \in Registered(clNodes) : clStatus[n] # "Connected")
    => clResult.node = NoAvailableNodeError

\* a selection on a non-empty set of which no node is Connected
C17_Witness ==
  /\ HasSelection
  /\ Len(clNodes) >= 2
  /\ \A n \in Registered(clNodes) : clStatus[n] # "Connected"
  /\ clResult.node = NoAvailableNodeError

\* the place of a registered node in the registration order
Position(n) == CHOOSE i \in DOMAIN clNodes : clNodes[i] = n

\* C24: when several connected, non-excluded nodes share the lowest penalty
\* score, selectNode returns the one registered first, and a repeated call
\* with the same excluded ids on an unchanged node set returns the same node.
C24_TieBreakByRegistration ==
  /\ [](HasSelection /\ clResult.node \in NodeIds =>
          \A m \in NodeIds :
            (/\ Selectable(m)
             /\ PenaltyScore(clStatus[m], clLoad[m]) =
                  PenaltyScore(clStatus[clResult.node], clLoad[clResult.node]))
              => Position(clResult.node) <= Position(m))
  /\ [][(/\ HasSelection
         /\ clResult'.node # "no-selection"
         /\ clResult'.excluded = clResult.excluded
         /\ <<clNodes, clStatus, clLoad>>' = <<clNodes, clStatus, clLoad>>)
          => clResult'.node = clResult.node]_vars

\* two connected nodes of equal penalty, registered N2 before N1: N2 is
\* returned
C24_Witness ==
  /\ Len(clNodes) >= 2
  /\ clNodes[1] = "N2"
  /\ clNodes[2] = "N1"
  /\ clStatus["N1"] = "Connected"
  /\ clStatus["N2"] = "Connected"
  /\ clLoad["N1"] = clLoad["N2"]
  /\ clResult = [excluded |-> {}, node |-> "N2"]

\* ---------------------------------------------- claims on the sessions
\* the notifications the step being taken emits
NewNotes == SubSeq(seLog', Len(seLog) + 1, Len(seLog'))
NeededIn(notes, s) ==
  { i \in DOMAIN notes : notes[i].kind = "needed" /\ notes[i].session = s }

\* C21: when a node acknowledges a handshake as non-resumed, every session
\* assigned to it (the sessions it had when it disconnected, less those
\* reassigned since) receives exactly one reassignment-needed notification and
\* no session assigned to another node receives one; a resumed handshake and
\* every other step emit none.
C21_NonResumedNotifiesOnce ==
  [][LET notes == NewNotes IN
       /\ (notes # << >> /\ notes[1].kind = "connected" /\ ~notes[1].resumed) =>
            \A s \in Sessions :
              Cardinality(NeededIn(notes, s)) =
                (IF s \in AssignedTo(seAssigned, notes[1].node) THEN 1 ELSE 0)
       /\ (\E s \in Sessions : NeededIn(notes, s) # {}) =>
            (notes[1].kind = "connected" /\ ~notes[1].resumed)
       /\ \A i \in DOMAIN notes :
            notes[i].kind = "needed" => notes[i].node = notes[1].node]_vars

\* node N1 came back without resuming: its session was reported once, and
\* the session assigned to N2 was not
C21_Witness ==
  /\ Len(seLog) >= 2
  /\ seLog[Len(seLog) - 1] = Note("connected", "N1", "", FALSE)
  /\ seLog[Len(seLog)].kind = "needed"
  /\ seLog[Len(seLog)].node = "N1"
  /\ \E s \in Sessions :
       /\ s # seLog[Len(seLog)].session
       /\ <<s, "N2">> \in seAssigned
  /\ <<seLog[Len(seLog)].session, "N1">> \in seAssigned

\* C23: in every reachable state each session has at most one assigned node,
\* and the node of an assigned session changes only in a step that emits a
\* reassignment notification naming the session and its new node.
C23_SingleObservableAssignment ==
  /\ [](\A s \in Sessions : Cardinality(NodesOf(seAssigned, s)) <= 1)
  /\ [][\A s \in Sessions :
          ( /\ NodesOf(seAssigned, s) # {}
            /\ NodesOf(seAssigned', s) # NodesOf(seAssigned, s) )
          => /\ Len(seLog') = Len(seLog) + 1
             /\ seLog'[Len(seLog')].kind = "reassigned"
             /\ seLog'[Len(seLog')].session = s
             /\ NodesOf(seAssigned', s) = {seLog'[Len(seLog')].node}]_vars

\* a session created on N1 was moved to N2 by an explicit reassignment
C23_Witness ==
  /\ clNodes = <<"N1", "N2">>
  /\ clStatus["N1"] = "Connected"
  /\ seLog # << >>
  /\ seLog[Len(seLog)].kind = "reassigned"
  /\ seLog[Len(seLog)].node = "N2"
  /\ <<seLog[Len(seLog)].session, "N2">> \in seAssigned

====
